---------------------------- MODULE Spec2Model ----------------------------
(***************************************************************************)
(* A model of the barreleye indexing pipeline: leader election over the    *)
(* `primary` Config row, the Sync and Process stages with their cursors,   *)
(* the pruner, and the invalidation of links by newly added addresses.     *)
(* Each part has its own specification over the shared variables; the      *)
(* variables of the other parts stay at their initial values.              *)
(***************************************************************************)
EXTENDS Integers, Sequences, FiniteSets, TLC

VARIABLES
    \* ---- the operation that produced the current state
    op,             \* a record with a `kind`; NoOp when nothing is recorded
    \* ---- warehouse tables (models/warehouse)
    links,          \* set of link rows
    transfers,      \* network_id of each transfers row
    amounts,        \* network_id of each amounts row
    balances,       \* network_id of each balances row
    \* ---- catalog tables (models/db)
    networks,       \* set of network rows
    entities,       \* set of entity rows
    addresses,      \* set of address rows
    address_id_seq, \* the last address_id handed out by the auto-increment
    config,         \* the Config table: ConfigKey -> value, for the keys present
    \* ---- replicas of the indexer (indexer/src/lib.rs, common/src/lib.rs)
    is_ready,       \* replica -> App::is_ready
    is_primary,     \* replica -> App::is_primary
    pc,             \* replica -> position in the primary_check loop
    last_primary,   \* replica -> what its Config::get(Primary) returned
    timer,          \* replica -> seconds left of its sleep
    stalled,        \* the replicas that are not running (frozen, starved)
    since_change,   \* seconds since the holder of `primary` last changed
    \* ---- the chain, the BlobStore and the Sync stage (indexer/src/sync.rs)
    chain_tip,      \* the block height the chain reports
    cpu_count,      \* App::cpu_count
    storage,        \* the block heights that have a partition
    sync_running,   \* the stage has spawned its workers
    sync_workers,   \* cursor key -> worker
    sync_first_height, \* block height seen by the first run, 0 before it
    \* ---- the Process stage (indexer/src/process.rs)
    module_ids,     \* chain.get_module_ids() of the running binary
    block_rows,     \* rows one module derives from one block of this chain
    process_running, \* the stage has spawned its workers
    process_workers, \* cursor key -> worker
    warehouse_data, \* the stage's batch: <<block, module>> whose rows it holds
    config_key_map, \* the stage's buffered cursor updates: key -> value
    buffered_tail,  \* the heights pushed for the tail key into config_key_map
    processed,      \* <<block, module>> that process_block has been run for
    tail_at_done    \* module -> process tail when its done marker was set

varsLink == <<links>>
varsWarehouse == <<transfers, amounts, balances>>
varsCatalog == <<networks, entities, addresses, address_id_seq>>

varsReplica == <<is_ready, is_primary, pc, last_primary, timer, stalled, since_change>>

varsSync == <<chain_tip, cpu_count, storage, sync_running, sync_workers, sync_first_height>>

varsProcess == <<module_ids, block_rows, process_running, process_workers, warehouse_data,
                 config_key_map, buffered_tail, processed, tail_at_done>>

vars == <<op, links, transfers, amounts, balances,
          networks, entities, addresses, address_id_seq, config,
          is_ready, is_primary, pc, last_primary, timer, stalled, since_change,
          chain_tip, cpu_count, storage, sync_running, sync_workers, sync_first_height,
          module_ids, block_rows, process_running, process_workers, warehouse_data,
          config_key_map, buffered_tail, processed, tail_at_done>>

NoOp == [kind |-> "none"]

\* the replicas, before any of them runs
Replicas == {"r1", "r2"}
None == [none |-> TRUE]

InitSyncIdle ==
    /\ chain_tip = 1
    /\ cpu_count = 1
    /\ storage = {}
    /\ sync_running = FALSE
    /\ sync_workers = <<>>
    /\ sync_first_height = 0

InitProcessIdle ==
    /\ module_ids = {1}
    /\ block_rows = 0
    /\ process_running = FALSE
    /\ process_workers = <<>>
    /\ warehouse_data = {}
    /\ config_key_map = <<>>
    /\ buffered_tail = {}
    /\ processed = {}
    /\ tail_at_done = <<>>

InitReplicaIdle ==
    /\ is_ready = [r \in Replicas |-> FALSE]
    /\ is_primary = [r \in Replicas |-> FALSE]
    /\ pc = [r \in Replicas |-> "loop"]
    /\ last_primary = [r \in Replicas |-> None]
    /\ timer = [r \in Replicas |-> 0]
    /\ stalled = {}
    /\ since_change = 0

\* the network ids of the model: two ids of which one is a decimal prefix
\* of the other
NetworkIds == {1, 12}

(***************************************************************************)
(* Part 1. links and Link::delete_all_by_newly_added_addresses             *)
(***************************************************************************)

\* bounds of the link model
NumAddresses == 4
MaxChainLen == 3
MaxLinks == 3

LinkNetworks == NetworkIds
LinkAddresses == 1..NumAddresses

\* A transfer is identified by its uuid; the model's uuid carries the
\* transfer's network and endpoints (warehouse/transfer.rs Model).
TransferUuids ==
    {u \in LinkNetworks \X LinkAddresses \X LinkAddresses : u[2] # u[3]}

TransferNetwork(u) == u[1]
TransferFrom(u) == u[2]
TransferTo(u) == u[3]

\* chain validity (spec 4.5): consecutive transfers meet, one network;
\* the chains of the model visit no address twice
IsChain(us) ==
    /\ Len(us) >= 1
    /\ \A i \in 1..Len(us) : TransferNetwork(us[i]) = TransferNetwork(us[1])
    /\ \A i \in 1..(Len(us) - 1) : TransferTo(us[i]) = TransferFrom(us[i + 1])
    /\ \A i, j \in 1..Len(us) :
          /\ i < j => TransferTo(us[i]) # TransferTo(us[j])
          /\ TransferFrom(us[1]) # TransferTo(us[j])

Chains ==
    UNION {{us \in [1..n -> TransferUuids] : IsChain(us)} : n \in 1..MaxChainLen}

\* Link::new
Link(us) ==
    [network_id |-> TransferNetwork(us[1]),
     from_address |-> TransferFrom(us[1]),
     to_address |-> TransferTo(us[Len(us)]),
     transfer_uuids |-> us]

\* ClickHouse arraySlice(arr, offset, length) with a negative length:
\* the elements offset .. Len(arr) + length (1-based)
arraySlice(arr, offset, length) ==
    {arr[i] : i \in offset..(Len(arr) + length)}

\* get_network_id_address_tuples(map, field): the row filter
\* (network_id = n AND field IN (addresses)) OR ...
get_network_id_address_tuples(map, row_network, row_field) ==
    \E n \in DOMAIN map : row_network = n /\ row_field \in map[n]

\* the sub-select: groupArray(transfer_uuids[-1]) over the links whose
\* to_address is a target
LastUuidsOfTargets(table, targets) ==
    {l.transfer_uuids[Len(l.transfer_uuids)] :
        l \in {x \in table :
                 /\ Len(x.transfer_uuids) > 0
                 /\ get_network_id_address_tuples(targets, x.network_id, x.to_address)}}

\* the WHERE clause of the DELETE
DeletedByNewlyAdded(l, table, targets) ==
    /\ Len(l.transfer_uuids) > 2
    /\ arraySlice(l.transfer_uuids, 2, -1) \cap LastUuidsOfTargets(table, targets) # {}

\* Link::delete_all_by_newly_added_addresses
delete_all_by_newly_added_addresses(table, targets) ==
    IF DOMAIN targets = {} THEN table
    ELSE {l \in table : ~DeletedByNewlyAdded(l, table, targets)}

\* the link stage stores a chain by extending a chain it already holds
LinkInsert(us) ==
    /\ Cardinality(links) < MaxLinks
    /\ Link(us) \notin links
    /\ Len(us) > 1 => Link(SubSeq(us, 1, Len(us) - 1)) \in links
    /\ links' = links \cup {Link(us)}
    /\ op' = NoOp
    /\ UNCHANGED <<varsWarehouse, varsCatalog, config, varsReplica, varsSync, varsProcess>>

\* the link stage picks up newly_added_address_n{N}_a{aid} markers
LinkDeleteByNewlyAdded(n, a) ==
    /\ links' = delete_all_by_newly_added_addresses(links, (n :> {a}))
    /\ op' = [kind |-> "newly_added", network_id |-> n, address |-> a]
    /\ UNCHANGED <<varsWarehouse, varsCatalog, config, varsReplica, varsSync, varsProcess>>

InitLink ==
    /\ links = {}
    /\ op = NoOp
    /\ transfers = {} /\ amounts = {} /\ balances = {}
    /\ networks = {} /\ entities = {} /\ addresses = {}
    /\ address_id_seq = 0
    /\ config = [k \in {} |-> 0]
    /\ InitReplicaIdle
    /\ InitSyncIdle
    /\ InitProcessIdle

NextLink ==
    \/ \E us \in Chains : LinkInsert(us)
    \/ \E n \in LinkNetworks, a \in LinkAddresses : LinkDeleteByNewlyAdded(n, a)

\* A passes through the chain in a non-endpoint position: it is the
\* to_address of a transfer that is not the last one
PassesThrough(l, n, a) ==
    /\ l.network_id = n
    /\ \E i \in 1..(Len(l.transfer_uuids) - 1) : TransferTo(l.transfer_uuids[i]) = a

\* C6: after delete_all_by_newly_added_addresses ran for address A on
\* network N, no link remains whose chain passes through A in a
\* non-endpoint position.
C6_NoChainThroughNewAddress ==
    op.kind = "newly_added" =>
        \A l \in links : ~PassesThrough(l, op.network_id, op.address)

SpecLink == InitLink /\ [][NextLink]_vars

(***************************************************************************)
(* Part 2. Config keys as text, the catalog, and the pruner                *)
(***************************************************************************)

\* bound of the catalog model: the address rows ever created
MaxAddressId == 2

EntityIds == {1, 2}
PruneAddresses == {1}

\* ---- ConfigKey and its Display (models/db/config.rs)
\* A key is <<variant, first number, second number>>; to_string gives the
\* text stored in the `key` column, one character per element.
DigitChar == <<"0", "1", "2", "3", "4", "5", "6", "7", "8", "9">>

RECURSIVE Digits(_)
Digits(n) ==
    IF n < 10 THEN <<DigitChar[n + 1]>>
    ELSE Digits(n \div 10) \o <<DigitChar[(n % 10) + 1]>>

KeyPrimary == <<"Primary", 0, 0>>
KeyNetworksUpdated == <<"NetworksUpdated", 0, 0>>
KeyBlockHeight(n) == <<"BlockHeight", n, 0>>
KeyNewlyAddedAddress(n, a) == <<"NewlyAddedAddress", n, a>>
KeyIndexerLink(n, a) == <<"IndexerLink", n, a>>
KeySyncTail(n) == <<"IndexerSyncTail", n, 0>>
KeySyncChunk(n, max) == <<"IndexerSyncChunk", n, max>>
KeyProcessTail(n) == <<"IndexerProcessTail", n, 0>>
KeyProcessChunk(n, max) == <<"IndexerProcessChunk", n, max>>
KeyProcessModule(n, m) == <<"IndexerProcessModule", n, m>>
KeyProcessModuleDone(n, m) == <<"IndexerProcessModuleDone", n, m>>

to_string(k) ==
    CASE k[1] = "Primary" ->
           <<"p", "r", "i", "m", "a", "r", "y">>
      [] k[1] = "NetworksUpdated" ->
           <<"n", "e", "t", "w", "o", "r", "k", "s", "_",
             "u", "p", "d", "a", "t", "e", "d">>
      [] k[1] = "BlockHeight" ->
           <<"b", "l", "o", "c", "k", "_", "h", "e", "i", "g", "h", "t", "_", "n">>
           \o Digits(k[2])
      [] k[1] = "NewlyAddedAddress" ->
           <<"n", "e", "w", "l", "y", "_", "a", "d", "d", "e", "d", "_",
             "a", "d", "d", "r", "e", "s", "s", "_", "n">>
           \o Digits(k[2]) \o <<"_", "a">> \o Digits(k[3])
      [] k[1] = "IndexerLink" ->
           <<"i", "n", "d", "e", "x", "e", "r", "_", "l", "i", "n", "k", "_", "n">>
           \o Digits(k[2]) \o <<"_", "a">> \o Digits(k[3])
      [] k[1] = "IndexerSyncTail" ->
           <<"i", "n", "d", "e", "x", "e", "r", "_", "s", "y", "n", "c", "_",
             "t", "a", "i", "l", "_", "n">> \o Digits(k[2])
      [] k[1] = "IndexerSyncChunk" ->
           <<"i", "n", "d", "e", "x", "e", "r", "_", "s", "y", "n", "c", "_",
             "c", "h", "u", "n", "k", "_", "n">>
           \o Digits(k[2]) \o <<"_", "b">> \o Digits(k[3])
      [] k[1] = "IndexerProcessTail" ->
           <<"i", "n", "d", "e", "x", "e", "r", "_", "p", "r", "o", "c", "e", "s", "s",
             "_", "t", "a", "i", "l", "_", "n">> \o Digits(k[2])
      [] k[1] = "IndexerProcessChunk" ->
           <<"i", "n", "d", "e", "x", "e", "r", "_", "p", "r", "o", "c", "e", "s", "s",
             "_", "c", "h", "u", "n", "k", "_", "n">>
           \o Digits(k[2]) \o <<"_", "b">> \o Digits(k[3])
      [] k[1] = "IndexerProcessModule" ->
           <<"i", "n", "d", "e", "x", "e", "r", "_", "p", "r", "o", "c", "e", "s", "s",
             "_", "m", "o", "d", "u", "l", "e", "_", "n">>
           \o Digits(k[2]) \o <<"_", "m">> \o Digits(k[3])
      [] k[1] = "IndexerProcessModuleDone" ->
           <<"i", "n", "d", "e", "x", "e", "r", "_", "p", "r", "o", "c", "e", "s", "s",
             "_", "m", "o", "d", "u", "l", "e", "_", "d", "o", "n", "e", "_", "n">>
           \o Digits(k[2]) \o <<"_", "m">> \o Digits(k[3])

\* SQL LIKE: `%` matches any run of characters, `_` exactly one character
RECURSIVE Like(_, _)
Like(text, pattern) ==
    IF pattern = <<>> THEN text = <<>>
    ELSE IF Head(pattern) = "%"
         THEN \/ Like(text, Tail(pattern))
              \/ text # <<>> /\ Like(Tail(text), pattern)
    ELSE /\ text # <<>>
         /\ Head(pattern) = "_" \/ Head(pattern) = Head(text)
         /\ Like(Tail(text), Tail(pattern))

\* the keyword of a network in prune_data: format!("n{}", network_id)
NetworkKeyword(n) == <<"n">> \o Digits(n)

\* a variant of the filter that keeps only the infix pattern
get_keyword_conditions_infix_only(keywords, key) ==
    \E keyword \in keywords :
        Like(to_string(key), <<"%", "_">> \o keyword \o <<"_", "%">>)

\* Config::get_keyword_conditions: key LIKE '%_{kw}_%' OR key LIKE '%_{kw}'
get_keyword_conditions(keywords, key) ==
    \E keyword \in keywords :
        \/ Like(to_string(key), <<"%", "_">> \o keyword \o <<"_", "%">>)
        \/ Like(to_string(key), <<"%", "_">> \o keyword)

\* restriction of the Config table to the keys of a set
ConfigKeep(cfg, keys) == [k \in keys |-> cfg[k]]

\* Config::delete_all_by_keywords
delete_all_by_keywords(cfg, keywords) ==
    ConfigKeep(cfg, {k \in DOMAIN cfg : ~get_keyword_conditions(keywords, k)})

\* Config::delete_many: key IN (keys)
delete_many(cfg, keys) == ConfigKeep(cfg, DOMAIN cfg \ keys)

\* Config::set (upsert)
ConfigSet(cfg, key, value) ==
    [k \in DOMAIN cfg \cup {key} |-> IF k = key THEN value ELSE cfg[k]]

\* ---- catalog rows
Network(n, d) == [network_id |-> n, is_deleted |-> d]
Entity(e, d) == [entity_id |-> e, is_deleted |-> d]
Address(id, e, n, a, d) ==
    [address_id |-> id, entity_id |-> e, network_id |-> n, address |-> a,
     is_deleted |-> d]

\* UPDATE ... SET is_deleted = true WHERE filter
SoftDelete(rows, hit) ==
    {IF hit[r] THEN [r EXCEPT !.is_deleted = TRUE] ELSE r : r \in rows}

\* SoftDeleteModel::get_all_existing(Some(is_deleted))
get_all_existing(rows, is_deleted) == {r \in rows : r.is_deleted = is_deleted}

\* SoftDeleteModel::prune_all: DELETE WHERE is_deleted = true
prune_all(rows) == {r \in rows : ~r.is_deleted}

\* SoftDeleteModel::prune_all_where: DELETE WHERE is_deleted = true AND filter
prune_all_where(rows, hit) == {r \in rows : ~(r.is_deleted /\ hit[r])}

\* Address::get_all_deleted: is_deleted = true AND entity_id IN (the ids of
\* the soft-deleted entities)
get_all_deleted(addrs, ents) ==
    {a \in addrs :
        /\ a.is_deleted
        /\ a.entity_id \in {e.entity_id : e \in get_all_existing(ents, TRUE)}}

\* fk_addresses_entity_id / fk_addresses_network_id, ON DELETE CASCADE
Cascade(addrs, ents, nets) ==
    {a \in addrs :
        /\ a.entity_id \in {e.entity_id : e \in ents}
        /\ a.network_id \in {n.network_id : n \in nets}}

\* the `sources` map of prune_data: network_id -> addresses
Sources(addrs) ==
    [n \in {a.network_id : a \in addrs} |->
        {a.address : a \in {x \in addrs : x.network_id = n}}]

\* Link::delete_all_by_sources
delete_all_by_sources(table, sources) ==
    IF DOMAIN sources = {} THEN table
    ELSE {l \in table :
            ~get_network_id_address_tuples(sources, l.network_id, l.from_address)}

\* Transfer/Balance/Amount::delete_all_by_network_id on the network_ids of
\* the rows
delete_all_by_network_id(table, network_ids) == table \ network_ids

\* Link::delete_all_by_network_id
link_delete_all_by_network_id(table, network_ids) ==
    {l \in table : l.network_id \notin network_ids}

\* ---- server handlers
\* POST /v1/addresses for one address
AddressCreate(e, n, a) ==
    /\ address_id_seq < MaxAddressId
    /\ Entity(e, FALSE) \in entities
    /\ \E row \in networks : row.network_id = n
    /\ ~\E row \in addresses :
          row.entity_id = e /\ row.network_id = n /\ row.address = a
    /\ address_id_seq' = address_id_seq + 1
    /\ addresses' = addresses \cup {Address(address_id_seq', e, n, a, FALSE)}
    /\ config' = ConfigSet(config, KeyNewlyAddedAddress(n, address_id_seq'),
                           address_id_seq')
    /\ op' = NoOp
    /\ UNCHANGED <<varsLink, varsWarehouse, networks, entities, varsReplica, varsSync, varsProcess>>

\* DELETE /v1/addresses for one address
AddressDelete(id) ==
    /\ \E row \in addresses : row.address_id = id
    /\ addresses' = SoftDelete(addresses, [r \in addresses |-> r.address_id = id])
    /\ op' = NoOp
    /\ UNCHANGED <<varsLink, varsWarehouse, networks, entities, address_id_seq,
                   config, varsReplica, varsSync, varsProcess>>

\* DELETE /v1/entities for one entity
EntityDelete(e) ==
    /\ \E row \in entities : row.entity_id = e
    /\ addresses' = SoftDelete(addresses, [r \in addresses |-> r.entity_id = e])
    /\ entities' = SoftDelete(entities, [r \in entities |-> r.entity_id = e])
    /\ op' = NoOp
    /\ UNCHANGED <<varsLink, varsWarehouse, networks, address_id_seq, config, varsReplica, varsSync, varsProcess>>

\* DELETE /v1/networks for one network
NetworkDelete(n) ==
    /\ \E row \in networks : row.network_id = n
    /\ addresses' = SoftDelete(addresses, [r \in addresses |-> r.network_id = n])
    /\ networks' = SoftDelete(networks, [r \in networks |-> r.network_id = n])
    /\ config' = ConfigSet(config, KeyNetworksUpdated, 1)
    /\ op' = NoOp
    /\ UNCHANGED <<varsLink, varsWarehouse, entities, address_id_seq, varsReplica, varsSync, varsProcess>>

\* ---- indexer writes; a replica keeps writing for the networks it has
\* connected until it notices networks_updated, so a soft-deleted network
\* still receives writes
\* get_updated_block_height: Config::set(BlockHeight(nid), height)
BlockHeightWrite(n) ==
    /\ \E row \in networks : row.network_id = n
    /\ config' = ConfigSet(config, KeyBlockHeight(n), 1)
    /\ op' = NoOp
    /\ UNCHANGED <<varsProcess, varsLink, varsWarehouse, varsCatalog, varsReplica, varsSync, varsProcess>>

\* WarehouseData::commit and the balances writer: rows of network n
WarehouseCommit(n) ==
    /\ \E row \in networks : row.network_id = n
    /\ transfers' = transfers \cup {n}
    /\ amounts' = amounts \cup {n}
    /\ balances' = balances \cup {n}
    /\ op' = NoOp
    /\ UNCHANGED <<varsLink, varsCatalog, config, varsReplica, varsSync, varsProcess>>

\* the address every link of the catalog model ends at
PruneLinkTo == 3

\* the link stage follows a tracked address: it stores a link that starts
\* at the address and its cursor indexer_link_n{nid}_a{aid}
LinkStageWrite(row) ==
    /\ ~row.is_deleted
    /\ links' = links \cup {Link(<<<<row.network_id, row.address, PruneLinkTo>>>>)}
    /\ config' = ConfigSet(config, KeyIndexerLink(row.network_id, row.address_id), 1)
    /\ op' = NoOp
    /\ UNCHANGED <<varsWarehouse, varsCatalog, varsReplica, varsSync, varsProcess>>

\* ---- Indexer::prune_data, one pass
prune_data ==
    LET deleted_addresses == get_all_deleted(addresses, entities)
        address_ids == {a.address_id : a \in deleted_addresses}
        config1 ==
            IF deleted_addresses = {} THEN config
            ELSE delete_many(config, {KeyIndexerLink(a.network_id, a.address_id) :
                                        a \in deleted_addresses})
        addresses1 ==
            IF deleted_addresses = {} THEN addresses
            ELSE prune_all_where(addresses,
                                 [r \in addresses |-> r.address_id \in address_ids])
        links1 ==
            IF deleted_addresses = {} THEN links
            ELSE delete_all_by_sources(links, Sources(deleted_addresses))
        entities1 == prune_all(entities)
        addresses2 == Cascade(addresses1, entities1, networks)
        deleted_networks == get_all_existing(networks, TRUE)
        network_ids == {n.network_id : n \in deleted_networks}
        networks1 ==
            prune_all_where(networks, [r \in networks |-> r.network_id \in network_ids])
        addresses3 ==
            prune_all_where(addresses2,
                            [r \in addresses2 |-> r.network_id \in network_ids])
        \* bookkeeping: the soft-deleted networks that had rows in every
        \* warehouse table and Config keys of both shapes before the pass
        had_data ==
            {n \in network_ids :
                /\ n \in transfers /\ n \in amounts /\ n \in balances
                /\ \E l \in links : l.network_id = n
                /\ KeyBlockHeight(n) \in DOMAIN config
                /\ \E k \in DOMAIN config : k[1] = "IndexerLink" /\ k[2] = n}
    IN  /\ op' = [kind |-> "prune",
                  networks |-> network_ids,
                  had_data |-> had_data,
                  addresses |-> get_all_existing(addresses, TRUE)]
        /\ entities' = entities1
        /\ address_id_seq' = address_id_seq
        /\ UNCHANGED <<varsReplica, varsSync, varsProcess>>
        /\ IF deleted_networks = {}
           THEN /\ config' = config1
                /\ addresses' = addresses2
                /\ links' = links1
                /\ UNCHANGED <<networks, varsWarehouse>>
           ELSE /\ config' = delete_all_by_keywords(
                                 config1, {NetworkKeyword(n) : n \in network_ids})
                /\ transfers' = delete_all_by_network_id(transfers, network_ids)
                /\ balances' = delete_all_by_network_id(balances, network_ids)
                /\ amounts' = delete_all_by_network_id(amounts, network_ids)
                /\ links' = link_delete_all_by_network_id(links1, network_ids)
                /\ networks' = networks1
                /\ addresses' = Cascade(addresses3, entities1, networks1)

EmptyConfig == [k \in {} |-> 0]

InitPrune ==
    /\ op = NoOp
    /\ links = {}
    /\ transfers = {} /\ amounts = {} /\ balances = {}
    /\ networks = {Network(n, FALSE) : n \in NetworkIds}
    /\ entities = {Entity(e, FALSE) : e \in EntityIds}
    /\ addresses = {}
    /\ address_id_seq = 0
    /\ config = EmptyConfig
    /\ InitReplicaIdle
    /\ InitSyncIdle
    /\ InitProcessIdle

NextPrune ==
    \/ \E e \in EntityIds, n \in NetworkIds, a \in PruneAddresses : AddressCreate(e, n, a)
    \/ \E id \in 1..MaxAddressId : AddressDelete(id)
    \/ \E e \in EntityIds : EntityDelete(e)
    \/ \E n \in NetworkIds : NetworkDelete(n)
    \/ \E n \in NetworkIds : BlockHeightWrite(n)
    \/ \E n \in NetworkIds : WarehouseCommit(n)
    \/ \E row \in addresses : LinkStageWrite(row)
    \/ prune_data

SpecPrune == InitPrune /\ [][NextPrune]_vars

\* the text of key k contains the text kw
Contains(text, kw) ==
    \E i \in 1..(Len(text) - Len(kw) + 1) : SubSeq(text, i, i + Len(kw) - 1) = kw

C9_AddressDeletion ==
    op.kind = "prune" =>
        \A a \in op.addresses :
            /\ KeyIndexerLink(a.network_id, a.address_id) \notin DOMAIN config
            /\ \A l \in links :
                  ~(l.network_id = a.network_id /\ l.from_address = a.address)
            /\ a \notin addresses

\* the keys that carry a network id, other than the link cursors (which
\* the address branch of the pass deletes by name)
NetworkKeyVariants ==
    {"BlockHeight", "NewlyAddedAddress", "IndexerSyncTail", "IndexerSyncChunk",
     "IndexerProcessTail", "IndexerProcessChunk", "IndexerProcessModule",
     "IndexerProcessModuleDone"}

\* C34: a prune_data pass that prunes the soft-deleted networks leaves
\* the Config keys of every other network as they were: a key is deleted
\* by the keywords only if it carries the id of a pruned network.
C34_OtherNetworksKept ==
    [][op'.kind = "prune" =>
          \A k \in DOMAIN config :
              (k[1] \in NetworkKeyVariants /\ k[2] \notin op'.networks) =>
                  k \in DOMAIN config' /\ config'[k] = config[k]]_vars

\* ---- a prune_data pass in which a statement returns an error
\* the statements of prune_data in their order; each ends with `?`, so
\* the pass returns at the first that fails
PruneSteps ==
    <<"get_all_deleted", "delete_many", "prune_addresses", "delete_all_by_sources",
      "prune_entities", "get_all_existing", "delete_all_by_keywords",
      "prune_network_addresses", "delete_all_by_network_id", "prune_networks">>

PruneStepIndex(step) ==
    IF step = "none" THEN Len(PruneSteps) + 1
    ELSE CHOOSE i \in DOMAIN PruneSteps : PruneSteps[i] = step

\* the four deletions that tokio::join! runs to their end
WarehouseTables == {"transfers", "balances", "amounts", "links"}

\* a variant that looks at the result of the last deletion only
joined_last_only(done) == "links" \in done

\* transfers_deleted.and(balances_deleted).and(amounts_deleted)
\* .and(links_deleted): Ok when the four deletions of `done` are all four
joined(done) == done = WarehouseTables

\* the pass up to the statement `fail` (all of it when fail = "none"), the
\* deletions of `done` being the ones of the join that succeed
prune_data_err(fail, done) ==
    LET f == PruneStepIndex(fail)
        deleted_addresses == get_all_deleted(addresses, entities)
        address_ids == {a.address_id : a \in deleted_addresses}
        in_addresses == f > 1 /\ deleted_addresses # {}
        config1 ==
            IF in_addresses /\ f > 2
            THEN delete_many(config, {KeyIndexerLink(a.network_id, a.address_id) :
                                        a \in deleted_addresses})
            ELSE config
        addresses1 ==
            IF in_addresses /\ f > 3
            THEN prune_all_where(addresses,
                                 [r \in addresses |-> r.address_id \in address_ids])
            ELSE addresses
        links1 ==
            IF in_addresses /\ f > 4
            THEN delete_all_by_sources(links, Sources(deleted_addresses))
            ELSE links
        entities1 == IF f > 5 THEN prune_all(entities) ELSE entities
        addresses2 == Cascade(addresses1, entities1, networks)
        deleted_networks == get_all_existing(networks, TRUE)
        network_ids == {n.network_id : n \in deleted_networks}
        in_networks == f > 6 /\ deleted_networks # {}
        config2 ==
            IF in_networks /\ f > 7
            THEN delete_all_by_keywords(config1, {NetworkKeyword(n) : n \in network_ids})
            ELSE config1
        addresses3 ==
            IF in_networks /\ f > 8
            THEN prune_all_where(addresses2,
                                 [r \in addresses2 |-> r.network_id \in network_ids])
            ELSE addresses2
        in_join == in_networks /\ f > 8
        Deleted(table) == in_join /\ table \in done
        in_prune == in_join /\ joined(done) /\ f > 10
        networks1 ==
            IF in_prune
            THEN prune_all_where(networks, [r \in networks |-> r.network_id \in network_ids])
            ELSE networks
        failed == IF in_join /\ ~joined(done) THEN "delete_all_by_network_id" ELSE fail
    IN  \* the statement that fails is one the pass comes to
        /\ fail # "delete_all_by_network_id"
        /\ fail \in {"delete_many", "prune_addresses", "delete_all_by_sources"} =>
               deleted_addresses # {}
        /\ fail \in {"delete_all_by_keywords", "prune_network_addresses",
                     "prune_networks"} => deleted_networks # {}
        /\ ~in_join => done = WarehouseTables
        /\ failed # "none" \/ done # WarehouseTables
        /\ op' = [kind |-> "prune_err", failed |-> failed, done |-> done,
                  networks |-> IF f > 6 THEN network_ids ELSE {},
                  selected |-> IF f > 1 THEN deleted_addresses ELSE {}]
        /\ config' = config2
        /\ entities' = entities1
        /\ addresses' = Cascade(addresses3, entities1, networks1)
        /\ networks' = networks1
        /\ transfers' = IF Deleted("transfers")
                        THEN delete_all_by_network_id(transfers, network_ids)
                        ELSE transfers
        /\ balances' = IF Deleted("balances")
                       THEN delete_all_by_network_id(balances, network_ids)
                       ELSE balances
        /\ amounts' = IF Deleted("amounts")
                      THEN delete_all_by_network_id(amounts, network_ids)
                      ELSE amounts
        /\ links' = IF Deleted("links")
                    THEN link_delete_all_by_network_id(links1, network_ids)
                    ELSE links1
        /\ address_id_seq' = address_id_seq
        /\ UNCHANGED <<varsReplica, varsSync, varsProcess>>

\* the catalog with an address of entity 1 on each network
InitPruneErr ==
    /\ op = NoOp
    /\ links = {}
    /\ transfers = {} /\ amounts = {} /\ balances = {}
    /\ networks = {Network(n, FALSE) : n \in NetworkIds}
    /\ entities = {Entity(e, FALSE) : e \in EntityIds}
    /\ addresses = {Address(1, 1, 1, 1, FALSE), Address(2, 1, 12, 1, FALSE)}
    /\ address_id_seq = 2
    /\ config = ConfigSet(ConfigSet(EmptyConfig, KeyNewlyAddedAddress(1, 1), 1),
                          KeyNewlyAddedAddress(12, 2), 2)
    /\ InitReplicaIdle
    /\ InitSyncIdle
    /\ InitProcessIdle

NextPruneErr ==
    \/ \E id \in 1..2 : AddressDelete(id)
    \/ EntityDelete(1)
    \/ \E n \in NetworkIds : NetworkDelete(n)
    \/ \E n \in NetworkIds : WarehouseCommit(n)
    \/ \E row \in addresses : LinkStageWrite(row)
    \/ prune_data
    \/ prune_data_err("delete_all_by_sources", WarehouseTables)
    \/ \E done \in SUBSET WarehouseTables : prune_data_err("none", done)

SpecPruneErr == InitPruneErr /\ [][NextPruneErr]_vars

\* C35: when Link::delete_all_by_sources fails in a pass, the soft-deleted
\* address rows the pass selected are still in the catalog afterwards, so
\* that a later pass selects them again.
C35_AddressRetry ==
    (op.kind = "prune_err" /\ op.failed = "delete_all_by_sources") =>
        op.selected \subseteq addresses

\* the rows of a network in the warehouse
HasRows(n) ==
    \/ n \in transfers \/ n \in balances \/ n \in amounts
    \/ \E l \in links : l.network_id = n

\* C36: a network row is hard-deleted only by a pass whose four warehouse
\* deletions have all succeeded; when one of them fails, the network row
\* stays soft-deleted, which is what the next pass selects.
C36_NetworkAfterWarehouse ==
    [][/\ \A n \in NetworkIds :
             (/\ \E row \in networks : row.network_id = n
              /\ ~\E row \in networks' : row.network_id = n) =>
                 /\ op'.kind = "prune"
                 /\ ~HasRows(n)'
       /\ (op'.kind = "prune_err" /\ op'.failed = "delete_all_by_network_id") =>
             /\ networks' = networks
             /\ \A n \in op'.networks :
                   Network(n, TRUE) \in get_all_existing(networks', TRUE)]_vars

\* one of the four deletions has failed for a soft-deleted network that
\* has rows left, and the network row is still there, soft-deleted
C36_Witness ==
    /\ op.kind = "prune_err" /\ op.failed = "delete_all_by_network_id"
    /\ op.done \notin {{}, WarehouseTables}
    /\ \E n \in op.networks : HasRows(n) /\ Network(n, TRUE) \in networks

(***************************************************************************)
(* Part 3. Leader election over the `primary` Config row                   *)
(***************************************************************************)

\* common/src/lib.rs
INDEXER_PROMOTION_TIMEOUT == 20
INDEXER_HEARTBEAT_INTERVAL == 2

\* the cool-down of primary_check: INDEXER_PROMOTION_TIMEOUT / 2
COOLDOWN == INDEXER_PROMOTION_TIMEOUT \div 2

\* Time is counted in seconds.  The `primary` row is [value, age], age
\* being now - updated_at; ages beyond the promotion timeout are all alike.
MaxAge == INDEXER_PROMOTION_TIMEOUT + 1

\* Config::get
ConfigGet(cfg, key) == IF key \in DOMAIN cfg THEN cfg[key] ELSE None

\* App::is_leading
is_leading(r) == is_ready[r] /\ is_primary[r]

\* a variant of the match that never tries to upgrade
primary_check_arm_no_upgrade(uuid, hit) ==
    IF hit = None THEN "create"
    ELSE IF hit.value = uuid /\ hit.age <= COOLDOWN THEN "check_in"
    ELSE "secondary"

\* the arm primary_check takes for what Config::get returned:
\*   None                                                     => create
\*   value == uuid && updated_at >= ago(PROMOTION_TIMEOUT/2)  => check_in
\*   ago(PROMOTION_TIMEOUT) > updated_at                      => upgrade
\*   _                                                        => secondary
primary_check_arm(uuid, hit) ==
    IF hit = None THEN "create"
    ELSE IF hit.value = uuid /\ hit.age <= COOLDOWN THEN "check_in"
    ELSE IF hit.age > INDEXER_PROMOTION_TIMEOUT THEN "upgrade"
    ELSE "secondary"

\* primary_check up to the match: Config::get(Primary).  The replica keeps
\* the arm it will take and whether the row still is the one it read
\* (set_where compares value and updated_at; two writes never carry the
\* same pair).
PrimaryGet(r) ==
    /\ r \notin stalled
    /\ pc[r] = "loop" /\ timer[r] = 0
    /\ last_primary' = [last_primary EXCEPT ![r] =
           [arm |-> primary_check_arm(r, ConfigGet(config, KeyPrimary)),
            matches |-> KeyPrimary \in DOMAIN config]]
    /\ pc' = [pc EXCEPT ![r] = "match"]
    /\ op' = NoOp
    /\ UNCHANGED <<varsSync, varsProcess, varsLink, varsWarehouse, varsCatalog, config,
                   is_ready, is_primary, timer, stalled, since_change>>

\* a variant that sets is_primary as soon as its write went through
PrimaryAct_promote_on_claim(r) ==
    LET arm == last_primary[r].arm
        hit == ConfigGet(config, KeyPrimary)
        written == \/ arm = "create"
                   \/ arm \in {"check_in", "upgrade"} /\ last_primary[r].matches
    IN  /\ r \notin stalled
        /\ pc[r] = "match"
        /\ config' = IF written
                     THEN ConfigSet(config, KeyPrimary, [value |-> r, age |-> 0])
                     ELSE config
        /\ is_primary' =
               IF written THEN [is_primary EXCEPT ![r] = TRUE]
               ELSE IF arm = "secondary" THEN [is_primary EXCEPT ![r] = FALSE]
               ELSE is_primary
        /\ last_primary' =
               [q \in Replicas |->
                   IF q = r \/ last_primary[q] = None THEN None
                   ELSE IF written THEN [last_primary[q] EXCEPT !.matches = FALSE]
                   ELSE last_primary[q]]
        /\ since_change' =
               IF written /\ (hit = None \/ hit.value # r) THEN 0 ELSE since_change
        /\ pc' = [pc EXCEPT ![r] = "loop"]
        /\ timer' = [timer EXCEPT ![r] = INDEXER_HEARTBEAT_INTERVAL]
        /\ op' = [kind |-> "primary_check", replica |-> r, arm |-> arm,
                  written |-> written, was_primary |-> is_primary[r]]
        /\ UNCHANGED <<varsSync, varsProcess, varsLink, varsWarehouse, varsCatalog, is_ready, stalled>>

\* primary_check from the match to the sleep: Config::set in the create
\* arm, Config::set_where in the check_in and upgrade arms,
\* set_is_primary(true) after a check_in that went through,
\* set_is_primary(false) in the secondary arm
PrimaryAct(r) ==
    LET arm == last_primary[r].arm
        hit == ConfigGet(config, KeyPrimary)
        written == \/ arm = "create"
                   \/ arm \in {"check_in", "upgrade"} /\ last_primary[r].matches
    IN  /\ r \notin stalled
        /\ pc[r] = "match"
        /\ config' = IF written
                     THEN ConfigSet(config, KeyPrimary, [value |-> r, age |-> 0])
                     ELSE config
        /\ is_primary' =
               IF arm = "check_in" /\ written THEN [is_primary EXCEPT ![r] = TRUE]
               ELSE IF arm = "secondary" THEN [is_primary EXCEPT ![r] = FALSE]
               ELSE is_primary
        /\ last_primary' =
               [q \in Replicas |->
                   IF q = r \/ last_primary[q] = None THEN None
                   ELSE IF written THEN [last_primary[q] EXCEPT !.matches = FALSE]
                   ELSE last_primary[q]]
        /\ since_change' =
               IF written /\ (hit = None \/ hit.value # r) THEN 0 ELSE since_change
        /\ pc' = [pc EXCEPT ![r] = "loop"]
        /\ timer' = [timer EXCEPT ![r] = INDEXER_HEARTBEAT_INTERVAL]
        /\ op' = [kind |-> "primary_check", replica |-> r, arm |-> arm,
                  written |-> written, was_primary |-> is_primary[r]]
        /\ UNCHANGED <<varsSync, varsProcess, varsLink, varsWarehouse, varsCatalog, is_ready, stalled>>

\* one second passes; the replicas that run take their steps in no time
Tick ==
    /\ \A r \in Replicas \ stalled : pc[r] = "loop" /\ timer[r] > 0
    /\ config' =
           IF KeyPrimary \in DOMAIN config
           THEN [config EXCEPT ![KeyPrimary].age =
                    IF @ < MaxAge THEN @ + 1 ELSE @]
           ELSE config
    /\ timer' = [r \in Replicas |-> IF timer[r] > 0 THEN timer[r] - 1 ELSE 0]
    /\ since_change' = IF since_change < COOLDOWN THEN since_change + 1 ELSE since_change
    /\ op' = NoOp
    /\ UNCHANGED <<varsSync, varsProcess, varsLink, varsWarehouse, varsCatalog,
                   is_ready, is_primary, pc, last_primary, stalled>>

\* a replica stops running at any point of its loop, for any time
Stall(r) ==
    /\ r \notin stalled
    /\ stalled' = stalled \cup {r}
    /\ op' = NoOp
    /\ UNCHANGED <<varsSync, varsProcess, varsLink, varsWarehouse, varsCatalog, config,
                   is_ready, is_primary, pc, last_primary, timer, since_change>>

Resume(r) ==
    /\ r \in stalled
    /\ stalled' = stalled \ {r}
    /\ op' = NoOp
    /\ UNCHANGED <<varsSync, varsProcess, varsLink, varsWarehouse, varsCatalog, config,
                   is_ready, is_primary, pc, last_primary, timer, since_change>>

\* App::set_is_ready, once the replica is up
SetReady(r) ==
    /\ ~is_ready[r]
    /\ is_ready' = [is_ready EXCEPT ![r] = TRUE]
    /\ op' = NoOp
    /\ UNCHANGED <<varsSync, varsProcess, varsLink, varsWarehouse, varsCatalog, config,
                   is_primary, pc, last_primary, timer, stalled, since_change>>

InitLeader ==
    /\ op = NoOp
    /\ links = {}
    /\ transfers = {} /\ amounts = {} /\ balances = {}
    /\ networks = {} /\ entities = {} /\ addresses = {}
    /\ address_id_seq = 0
    /\ config = EmptyConfig
    /\ InitReplicaIdle
    /\ InitSyncIdle
    /\ InitProcessIdle

NextLeader ==
    \/ \E r \in Replicas : PrimaryGet(r)
    \/ \E r \in Replicas : PrimaryAct(r)
    \/ \E r \in Replicas : Stall(r)
    \/ \E r \in Replicas : Resume(r)
    \/ \E r \in Replicas : SetReady(r)
    \/ Tick

\* time passes, and a replica that runs again and again takes the next
\* step of its loop
SpecLeader ==
    /\ InitLeader
    /\ [][NextLeader]_vars
    /\ SF_vars(Tick)
    /\ \A r \in Replicas : SF_vars(PrimaryGet(r)) /\ SF_vars(PrimaryAct(r))

Holder == IF KeyPrimary \in DOMAIN config THEN config[KeyPrimary].value ELSE "nobody"

\* C1: once COOLDOWN seconds have passed since the holder of `primary`
\* last changed, at most one replica has is_leading = true.
C1_LeadershipUniqueness ==
    since_change >= COOLDOWN =>
        Cardinality({r \in Replicas : is_leading(r)}) <= 1


\* a stalled leader `a` and a running replica `b`: b comes to lead, unless
\* a resumes or b stalls first
TakesOver(a, b) ==
    (a \in stalled /\ Holder = a /\ is_leading(a) /\ b \notin stalled /\ is_ready[b])
        ~> (is_leading(b) \/ a \notin stalled \/ b \in stalled)

\* a running replica `a` whose is_primary is still set while `b` holds the
\* row: a clears is_primary, unless a stalls or gets the row back first
StepsDown(a, b) ==
    (a \notin stalled /\ is_primary[a] /\ Holder = b)
        ~> (~is_primary[a] \/ a \in stalled \/ Holder = a)

\* C8: when the leading replica stops heartbeating, a running replica
\* claims `primary` after PROMOTION_TIMEOUT and leads after its next
\* heartbeat; when the former leader resumes its loop it finds the other
\* uuid in the row and clears is_primary.
C8_LeaderFailover ==
    /\ TakesOver("r1", "r2") /\ TakesOver("r2", "r1")
    /\ StepsDown("r1", "r2") /\ StepsDown("r2", "r1")

\* the former leader has just stepped down in the secondary arm while the
\* replica that claimed the row leads
C8_Witness ==
    /\ op.kind = "primary_check" /\ op.arm = "secondary" /\ op.was_primary
    /\ \E b \in Replicas \ {op.replica} : Holder = b /\ is_leading(b)
    /\ ~is_primary[op.replica]

\* C23: a replica never sets is_primary in the iteration of primary_check
\* in which it claims or takes over the `primary` row; its is_primary goes
\* from false to true only in an iteration that read the row with its own
\* uuid and updated_at inside the cool-down, and whose set_where went
\* through.
C23_TwoStepPromotion ==
    op.kind = "primary_check" =>
        /\ op.arm \in {"create", "upgrade"} =>
               is_primary[op.replica] = op.was_primary
        /\ (is_primary[op.replica] /\ ~op.was_primary) =>
               op.arm = "check_in" /\ op.written

\* a replica that was not primary has just checked in on the row it
\* claimed in an earlier iteration, and is primary now
C23_Witness ==
    /\ op.kind = "primary_check" /\ op.arm = "check_in" /\ op.written
    /\ ~op.was_primary
    /\ is_primary[op.replica]
    /\ Holder = op.replica

\* C24: the claim of an absent `primary` row is a compare-and-set create:
\* when the row is there by the time the write of the create arm is
\* applied, the write does not replace it.
C24_CasCreate ==
    [][\A r \in Replicas :
          (/\ pc[r] = "match" /\ pc'[r] = "loop"
           /\ last_primary[r].arm = "create"
           /\ KeyPrimary \in DOMAIN config) =>
              config'[KeyPrimary].value = config[KeyPrimary].value]_vars

\* the arm the replica is to take for the row it read
TakeoverRule(uuid, hit) ==
    IF hit.value = uuid /\ hit.age <= COOLDOWN THEN "check_in"
    ELSE IF hit.value # uuid /\ hit.age > INDEXER_PROMOTION_TIMEOUT THEN "upgrade"
    ELSE "secondary"

\* C25: a replica attempts the takeover of `primary` only when the row it
\* read has another uuid and is older than PROMOTION_TIMEOUT; in every
\* other case that is not a heartbeat refresh, its own uuid with a
\* heartbeat older than the cool-down included, it writes nothing to the
\* row and clears is_primary.
C25_TakeoverRule ==
    [][\A r \in Replicas :
          /\ (pc[r] = "loop" /\ pc'[r] = "match" /\ KeyPrimary \in DOMAIN config) =>
                 last_primary'[r].arm = TakeoverRule(r, config[KeyPrimary])
          /\ (pc[r] = "match" /\ pc'[r] = "loop" /\ last_primary[r].arm = "secondary") =>
                 config' = config /\ ~is_primary'[r]]_vars

(***************************************************************************)
(* Part 4. The Sync stage of one replica on one network                    *)
(***************************************************************************)

\* bound of the chain model: the highest block the chain reaches
MaxTip == 7

\* App::cpu_count (num_cpus::get()) of the replica
CpuCounts == {1, 2, 4}

\* the replica whose stages are modelled, and its network
Me == "r1"
Nid == 1

Letters ==
    {"a", "b", "c", "d", "e", "f", "g", "h", "i", "j", "k", "l", "m",
     "n", "o", "p", "q", "r", "s", "t", "u", "v", "w", "x", "y", "z"}

\* the positions where the regex _([a-z])0 matches
ZeroMatches(text) ==
    {i \in 1..(Len(text) - 2) :
        text[i] = "_" /\ text[i + 1] \in Letters /\ text[i + 2] = "0"}

\* a variant that compares every key with =
adjust_filter_eq_only(key, row_key) == to_string(row_key) = to_string(key)

\* Config::adjust_filter on one key: Regex::replace puts `%` for the zero
\* of the first match; the key is compared with LIKE when it has a `%`,
\* with = otherwise
adjust_filter(key, row_key) ==
    LET text == to_string(key)
        hits == ZeroMatches(text)
    IN  IF hits = {} THEN to_string(row_key) = text
        ELSE LET i == CHOOSE j \in hits : \A h \in hits : j <= h
             IN  Like(to_string(row_key),
                      [text EXCEPT ![i + 2] = "%"])

\* Config::get_many for one key template: the rows of the table it returns
get_many(cfg, key) == {k \in DOMAIN cfg : adjust_filter(key, k)}

\* Config::set_many
set_many(cfg, values) ==
    [k \in DOMAIN cfg \cup DOMAIN values |->
        IF k \in DOMAIN values THEN values[k] ELSE cfg[k]]

\* Config::delete
ConfigDelete(cfg, key) == ConfigKeep(cfg, DOMAIN cfg \ {key})

\* Config::get(..).map(|v| v.value).unwrap_or(0)
ConfigValueOr0(cfg, key) == IF key \in DOMAIN cfg THEN cfg[key] ELSE 0

\* the persisted tail cursors of the network, 0 for a missing key
Tails(cfg) ==
    [sync |-> ConfigValueOr0(cfg, KeySyncTail(Nid)),
     process |-> ConfigValueOr0(cfg, KeyProcessTail(Nid))]

\* a variant that cuts [0, block_height - 1] into cpu_count chunks
get_block_chunk_ranges_all_cpus(block_height, cpus) ==
    LET chunk_size == (block_height - 1) \div cpus
    IN  [i \in 1..cpus |->
            <<(i - 1) * chunk_size,
              IF i = cpus THEN block_height - 1 ELSE i * chunk_size>>]

\* Indexer::get_block_chunk_ranges: cpu_count - 1 chunks of
\* floor((block_height - 1) / chunks) blocks, the last one ending at
\* block_height - 1; no chunk at all when cpu_count = 1
get_block_chunk_ranges(block_height, cpus) ==
    LET chunks == cpus - 1
        chunk_size == IF chunks = 0 THEN 0 ELSE (block_height - 1) \div chunks
    IN  [i \in 1..chunks |->
            <<(i - 1) * chunk_size,
              IF i = chunks THEN block_height - 1 ELSE i * chunk_size>>]

\* the worker of a cursor: the tail worker has no maximum
NoMax == -1
\* a variant whose worker starts one block after the cursor
Worker_skip(block_height, max) ==
    [block_height |-> block_height + 1, max |-> max, pc |-> "run"]

Worker(block_height, max) == [block_height |-> block_height, max |-> max, pc |-> "run"]

\* Indexer::get_updated_block_height: <<height, Config after the call>>
get_updated_block_height(cfg, tip, nid, last_known_block_height) ==
    IF /\ KeyBlockHeight(nid) \in DOMAIN cfg
       /\ cfg[KeyBlockHeight(nid)] > last_known_block_height
    THEN <<cfg[KeyBlockHeight(nid)], cfg>>
    ELSE <<tip, ConfigSet(cfg, KeyBlockHeight(nid), tip)>>

\* the first-run branch of Indexer::sync: chunk cursors from
\* get_block_chunk_ranges, and the tail fast-forwarded to block_height - 1
SyncFirstRun(cfg, nid, block_height, cpus) ==
    LET ranges == get_block_chunk_ranges(block_height, cpus)
        keys == {KeySyncChunk(nid, ranges[i][2]) : i \in DOMAIN ranges}
        \* collect::<HashMap>: a later range replaces an earlier one on the same key
        block_sync_ranges ==
            [k \in keys |->
                LET last == CHOOSE i \in DOMAIN ranges :
                                /\ KeySyncChunk(nid, ranges[i][2]) = k
                                /\ \A j \in DOMAIN ranges :
                                      KeySyncChunk(nid, ranges[j][2]) = k => j <= i
                IN  ranges[last]]
    IN  ConfigSet(set_many(cfg, block_sync_ranges), KeySyncTail(nid), block_height - 1)

\* Indexer::sync from the top of 'indexing to the spawn of the workers
SyncStart ==
    /\ ~sync_running
    /\ is_leading(Me)
    /\ LET last_copied_block == ConfigValueOr0(config, KeySyncTail(Nid))
           updated == get_updated_block_height(config, chain_tip, Nid, last_copied_block)
           block_height == updated[1]
           first_run == /\ last_copied_block = 0
                        /\ cpu_count > 0
                        /\ get_many(updated[2], KeySyncChunk(Nid, 0)) = {}
           config1 == IF first_run
                      THEN SyncFirstRun(updated[2], Nid, block_height, cpu_count)
                      ELSE updated[2]
           tail == IF first_run THEN block_height - 1 ELSE last_copied_block
           chunk_keys == get_many(config1, KeySyncChunk(Nid, 0))
       IN  /\ config' = config1
           /\ sync_workers' =
                  [k \in {KeySyncTail(Nid)} \cup chunk_keys |->
                      IF k = KeySyncTail(Nid) THEN Worker(tail, NoMax)
                      ELSE Worker(config1[k][1], config1[k][2])]
           /\ sync_first_height' = IF first_run THEN block_height ELSE sync_first_height
           /\ op' = [kind |-> "sync_start", first_run |-> first_run,
                     before |-> Tails(config)]
    /\ sync_running' = TRUE
    /\ UNCHANGED <<varsProcess, varsLink, varsWarehouse, varsCatalog, varsReplica,
                   chain_tip, cpu_count, storage>>

\* a chunk worker that has reached its maximum leaves its loop
SyncChunkWorkerBreak(k) ==
    /\ sync_running
    /\ k \in DOMAIN sync_workers
    /\ sync_workers[k].pc = "run"
    /\ sync_workers[k].max # NoMax
    /\ sync_workers[k].block_height + 1 > sync_workers[k].max
    /\ sync_workers' = [sync_workers EXCEPT ![k].pc = "done"]
    /\ op' = NoOp
    /\ UNCHANGED <<varsProcess, varsLink, varsWarehouse, varsCatalog, varsReplica, config,
                   chain_tip, cpu_count, storage, sync_running, sync_first_height>>

\* one turn of a worker's loop that extracts a block: the tail worker first
\* refreshes block_height_n{} from the chain when it has caught up; then
\* block_height += 1, chain.extract_block writes the partition, and the
\* worker pushes its cursor and waits for the receipt
SyncWorkerExtract(k) ==
    /\ sync_running
    /\ k \in DOMAIN sync_workers
    /\ sync_workers[k].pc = "run"
    /\ LET w == sync_workers[k]
           saved_block_height == ConfigValueOr0(config, KeyBlockHeight(Nid))
           caught_up == w.max = NoMax /\ w.block_height + 1 > saved_block_height
       IN  /\ w.max # NoMax => w.block_height + 1 <= w.max
           /\ caught_up => chain_tip > saved_block_height
           /\ config' = IF caught_up
                        THEN ConfigSet(config, KeyBlockHeight(Nid), chain_tip)
                        ELSE config
           /\ storage' = storage \cup {w.block_height + 1}
           /\ sync_workers' = [sync_workers EXCEPT
                                  ![k].block_height = w.block_height + 1,
                                  ![k].pc = "pushed"]
           /\ op' = [kind |-> "extract_block", block_height |-> w.block_height + 1,
                     is_leading |-> is_leading(Me)]
    /\ UNCHANGED <<varsProcess, varsLink, varsWarehouse, varsCatalog, varsReplica,
                   chain_tip, cpu_count, sync_running, sync_first_height>>

\* the tables of a partition (chain/bitcoin/schema)
ParquetFiles == {"blocks", "transactions", "inputs", "outputs"}

\* what the two RPC calls of extract_block can give: the block, the hash
\* but not the block, nothing (an RPC error after the retries, or no block
\* at this height)
Fetched == {"block", "hash", "none"}

\* a variant in which a COPY of a missing table writes an empty file
StorageDbCommit_lenient(tables, files) == "Ok"

\* StorageDb::commit: one COPY {file} TO ... per file, run as one batch.
\* A table exists once a row has been inserted in it (insert begins with
\* CREATE TEMP TABLE IF NOT EXISTS); the COPY of a table that does not
\* exist is an error of the database, which execute_batch returns
StorageDbCommit(tables, files) ==
    IF files \subseteq tables THEN "Ok" ELSE "Err"

\* Bitcoin::extract_block: the errors of get_block_hash and get_block are
\* dropped (`if let Ok`), the rows of a fetched block are inserted (every
\* block has a transaction with an input and an output), and the result
\* is the one of the commit
extract_block(fetched) ==
    StorageDbCommit(IF fetched = "block" THEN ParquetFiles ELSE {}, ParquetFiles)

\* one turn of a worker's loop on a block that cannot be fetched: when
\* extract_block returns the error, the worker returns it, join_next hands
\* it to the stage, and the stage returns it ('indexing Err); otherwise
\* the worker pushes its cursor as for an extracted block
SyncWorkerExtractErr(k, fetched) ==
    /\ sync_running
    /\ k \in DOMAIN sync_workers
    /\ sync_workers[k].pc = "run"
    /\ fetched # "block"
    /\ LET w == sync_workers[k]
           saved_block_height == ConfigValueOr0(config, KeyBlockHeight(Nid))
       IN  /\ IF w.max # NoMax THEN w.block_height + 1 <= w.max
              ELSE w.block_height + 1 <= saved_block_height
           /\ IF extract_block(fetched) = "Err"
              THEN /\ sync_running' = FALSE
                   /\ sync_workers' = <<>>
                   /\ op' = [kind |-> "extract_err", key |-> k,
                             block_height |-> w.block_height + 1]
              ELSE /\ sync_running' = sync_running
                   /\ sync_workers' = [sync_workers EXCEPT
                                          ![k].block_height = w.block_height + 1,
                                          ![k].pc = "pushed"]
                   /\ op' = [kind |-> "extract_empty", key |-> k,
                             block_height |-> w.block_height + 1]
    /\ UNCHANGED <<varsProcess, varsLink, varsWarehouse, varsCatalog, varsReplica, config,
                   chain_tip, cpu_count, storage, sync_first_height>>

\* the stage receives a push: when the replica does not lead any more it
\* aborts the workers and starts over; otherwise it releases the worker
\* and saves the cursor (a chunk cursor that reached its maximum is deleted)
SyncReceive(k) ==
    /\ sync_running
    /\ k \in DOMAIN sync_workers
    /\ sync_workers[k].pc = "pushed"
    /\ IF ~is_leading(Me)
       THEN /\ sync_running' = FALSE
            /\ sync_workers' = <<>>
            /\ config' = config
            /\ op' = [kind |-> "sync_abort"]
       ELSE LET w == sync_workers[k]
            IN  /\ sync_running' = sync_running
                /\ sync_workers' = [sync_workers EXCEPT ![k].pc = "run"]
                /\ config' =
                       IF w.max = NoMax THEN ConfigSet(config, k, w.block_height)
                       ELSE IF w.block_height < w.max
                            THEN ConfigSet(config, k, <<w.block_height, w.max>>)
                       ELSE ConfigDelete(config, k)
                /\ op' = [kind |-> "sync_cursor", key |-> k, before |-> Tails(config)]
    /\ UNCHANGED <<varsProcess, varsLink, varsWarehouse, varsCatalog, varsReplica,
                   chain_tip, cpu_count, storage, sync_first_height>>

\* networks_updated.changed(): the stage aborts its workers and returns;
\* Indexer::start spawns it again
SyncNetworksUpdated ==
    /\ sync_running
    /\ sync_running' = FALSE
    /\ sync_workers' = <<>>
    /\ op' = [kind |-> "sync_abort"]
    /\ UNCHANGED <<varsProcess, varsLink, varsWarehouse, varsCatalog, varsReplica, config,
                   chain_tip, cpu_count, storage, sync_first_height>>

\* primary_check sets or clears is_primary of the replica
SetIsPrimary(b) ==
    /\ is_primary[Me] # b
    /\ is_primary' = [is_primary EXCEPT ![Me] = b]
    /\ op' = NoOp
    /\ UNCHANGED <<varsLink, varsWarehouse, varsCatalog, config,
                   is_ready, pc, last_primary, timer, stalled, since_change, varsSync, varsProcess>>

\* the chain grows by a block
ChainGrow ==
    /\ chain_tip < MaxTip
    /\ chain_tip' = chain_tip + 1
    /\ op' = NoOp
    /\ UNCHANGED <<varsProcess, varsLink, varsWarehouse, varsCatalog, varsReplica, config,
                   cpu_count, storage, sync_running, sync_workers, sync_first_height>>

\* a replica that is up, on a network that has never been synced
InitSync ==
    /\ op = NoOp
    /\ links = {}
    /\ transfers = {} /\ amounts = {} /\ balances = {}
    /\ networks = {} /\ entities = {} /\ addresses = {}
    /\ address_id_seq = 0
    /\ config = EmptyConfig
    /\ is_ready = [r \in Replicas |-> r = Me]
    /\ is_primary = [r \in Replicas |-> FALSE]
    /\ pc = [r \in Replicas |-> "loop"]
    /\ last_primary = [r \in Replicas |-> None]
    /\ timer = [r \in Replicas |-> 0]
    /\ stalled = {}
    /\ since_change = 0
    /\ chain_tip \in 1..MaxTip
    /\ cpu_count \in CpuCounts
    /\ storage = {}
    /\ sync_running = FALSE
    /\ sync_workers = <<>>
    /\ sync_first_height = 0
    /\ InitProcessIdle

SyncKeys == {KeySyncTail(Nid)} \cup {KeySyncChunk(Nid, b) : b \in 0..MaxTip}

NextSync ==
    \/ SyncStart
    \/ \E k \in SyncKeys : SyncChunkWorkerBreak(k)
    \/ \E k \in SyncKeys : SyncWorkerExtract(k)
    \/ \E k \in SyncKeys : SyncReceive(k)
    \/ \E k \in SyncKeys, fetched \in Fetched : SyncWorkerExtractErr(k, fetched)
    \/ SyncNetworksUpdated
    \/ \E b \in BOOLEAN : SetIsPrimary(b)
    \/ ChainGrow

SpecSync == InitSync /\ [][NextSync]_vars

\* C10: a block is extracted (its BlobStore partition written) only while
\* the replica has is_leading = true.
C10_OnlyLeaderWrites ==
    op.kind = "extract_block" => op.is_leading

\* the Config table after the first Sync run of S5: tip 1000, 4 CPU cores
S5Config == SyncFirstRun(EmptyConfig, Nid, 1000, 4)

S5FirstRun ==
    /\ get_many(S5Config, KeySyncChunk(Nid, 0)) =
           {KeySyncChunk(Nid, 333), KeySyncChunk(Nid, 666), KeySyncChunk(Nid, 999)}
    /\ S5Config[KeySyncChunk(Nid, 333)] = <<0, 333>>
    /\ S5Config[KeySyncChunk(Nid, 666)] = <<333, 666>>
    /\ S5Config[KeySyncChunk(Nid, 999)] = <<666, 999>>
    /\ S5Config[KeySyncTail(Nid)] = 999

\* the first run cut the chain into chunks of at least one block, as in S5
ChunksNotEmpty ==
    /\ sync_first_height > 0
    /\ cpu_count >= 2
    /\ (sync_first_height - 1) \div (cpu_count - 1) >= 1

AllChunkWorkersDone ==
    /\ sync_running
    /\ \A k \in DOMAIN sync_workers :
          sync_workers[k].max # NoMax => sync_workers[k].pc = "done"

HeightsOf(w) == (w.block_height + 1)..w.max

ChunkWorkersOf(h) ==
    {k \in DOMAIN sync_workers :
        sync_workers[k].max # NoMax /\ h \in HeightsOf(sync_workers[k])}

\* C26: for cores >= 2, the chunk cursors the first run creates give every
\* block height in [0, tip) to exactly one chunk worker, and the tail is
\* fast-forwarded to tip - 1.
C26_ChunksPartition ==
    (op.kind = "sync_start" /\ op.first_run /\ cpu_count >= 2) =>
        /\ \A h \in 0..(sync_first_height - 1) : Cardinality(ChunkWorkersOf(h)) = 1
        /\ config[KeySyncTail(Nid)] = sync_first_height - 1

\* the height a Sync cursor stands at: what the tail key holds, the
\* minimum of what a chunk key holds
SyncCursor(cfg, k) ==
    IF k \notin DOMAIN cfg THEN 0
    ELSE IF k = KeySyncTail(Nid) THEN cfg[k] ELSE cfg[k][1]

\* C29: when the block at height h cannot be fetched, extract_block(h)
\* returns an error, the stage returns it, and the cursor of the worker is
\* not advanced to h; and the main loop saves a cursor value h only after
\* the partition of h has been committed.
C29_ExtractFailure ==
    /\ op.kind \notin {"extract_empty"}
    /\ op.kind = "extract_err" =>
           /\ ~sync_running
           /\ op.block_height \notin storage =>
                  SyncCursor(config, op.key) < op.block_height
    /\ op.kind = "sync_cursor" =>
           sync_workers[op.key].block_height \in storage

\* the tail worker has extracted blocks and its cursor has been saved; the
\* next block cannot be fetched and the stage has returned the error
C29_Witness ==
    /\ op.kind = "extract_err" /\ op.key = KeySyncTail(Nid)
    /\ op.block_height \notin storage
    /\ SyncCursor(config, op.key) = op.block_height - 1
    /\ op.block_height - 1 \in storage
    /\ ~sync_running

\* the chunk keys the first run created and the range it gave to each
OriginalRanges ==
    LET first == SyncFirstRun(EmptyConfig, Nid, sync_first_height, cpu_count)
    IN  [k \in DOMAIN first \ {KeySyncTail(Nid)} |-> first[k]]

\* every height of (min, max] has been extracted
Extracted(min, max) == \A h \in (min + 1)..max : h \in storage

\* C38: over aborts and restarts, a sync chunk key is deleted only after
\* every height in (min, max] of its original range was extracted at
\* least once, and a restarted chunk worker resumes at the persisted
\* (min, max) without skipping a height.
C38_ChunkResumption ==
    sync_first_height > 0 =>
        /\ get_many(config, KeySyncChunk(Nid, 0)) \subseteq DOMAIN OriginalRanges
        /\ \A k \in DOMAIN OriginalRanges :
              IF k \notin DOMAIN config
              THEN Extracted(OriginalRanges[k][1], OriginalRanges[k][2])
              ELSE /\ config[k][2] = OriginalRanges[k][2]
                   /\ config[k][1] >= OriginalRanges[k][1]
                   /\ Extracted(OriginalRanges[k][1], config[k][1])
                   /\ (op.kind = "sync_start" /\ k \in DOMAIN sync_workers) =>
                          /\ sync_workers[k].block_height = config[k][1]
                          /\ sync_workers[k].max = config[k][2]

\* the stage has started again after an abort: one chunk key is gone with
\* its range extracted, and the worker of another resumes in the middle of
\* its range
C38_Witness ==
    /\ op.kind = "sync_start" /\ ~op.first_run
    /\ sync_first_height > 0
    /\ \E k \in DOMAIN OriginalRanges :
          /\ k \notin DOMAIN config
          /\ OriginalRanges[k][2] - OriginalRanges[k][1] >= 2
    /\ \E k \in DOMAIN OriginalRanges :
          /\ k \in DOMAIN config
          /\ config[k][1] > OriginalRanges[k][1]
          /\ sync_workers[k].block_height = config[k][1]

(***************************************************************************)
(* Part 5. The Process stage of the same replica, next to its Sync stage   *)
(***************************************************************************)

\* the modules a binary can come with, and the rows one module derives
\* from one block of the chain
ModuleIds == {1, 2}
RowCounts == {0, 60, 120}

\* a worker pushes once its data has more rows than this
PUSH_ROWS == 100

\* WarehouseData::should_commit: (min_secs, max_secs) and the full buffer
min_secs == 1
max_secs == 10
BUFFER_FULL_LEN == 50000

\* the seconds since WarehouseData::saved_at that a push can find: the
\* batch was created or cleared just now, more than min_secs ago, more
\* than max_secs ago
SavedAgo == {0, min_secs + 1, max_secs + 1}

\* WarehouseData::len of the rows of a set of <<block, module>>
DataLen(data) == block_rows * Cardinality(data)

\* WarehouseData::should_commit
should_commit(data, ago, force) ==
    LET manually_required == force /\ DataLen(data) # 0
        lengthy_break == ago > max_secs /\ DataLen(data) # 0
        buffer_is_full == ago > min_secs /\ DataLen(data) > BUFFER_FULL_LEN
    IN  manually_required \/ lengthy_break \/ buffer_is_full

\* NetworkRange and the locals of its worker; msg is the push the worker
\* waits a receipt for
ProcessWorker(block_height, max, modules) ==
    [block_height |-> block_height, max |-> max, modules |-> modules,
     data |-> {}, pc |-> "run", msg |-> None]

\* the first-run branch of Indexer::process: chunk cursors over the synced
\* blocks, the tail fast-forwarded to last_synced_block_height - 1, and
\* every module marked as done
ProcessFirstRun(cfg, nid, last_synced_block_height, cpus, mods) ==
    LET ranges == get_block_chunk_ranges(last_synced_block_height, cpus)
        keys == {KeyProcessChunk(nid, ranges[i][2]) : i \in DOMAIN ranges}
        \* collect::<HashMap>: a later range replaces an earlier one on the same key
        block_sync_ranges ==
            [k \in keys |->
                LET last == CHOOSE i \in DOMAIN ranges :
                                /\ KeyProcessChunk(nid, ranges[i][2]) = k
                                /\ \A j \in DOMAIN ranges :
                                      KeyProcessChunk(nid, ranges[j][2]) = k => j <= i
                IN  ranges[last]]
        with_tail == ConfigSet(set_many(cfg, block_sync_ranges),
                               KeyProcessTail(nid), last_synced_block_height - 1)
    IN  set_many(with_tail, [k \in {KeyProcessModuleDone(nid, m) : m \in mods} |-> 1])

\* the range a module without done marker has to catch up on
ModuleRange(cfg, nid, m, last_processed_block) ==
    IF KeyProcessModule(nid, m) \in DOMAIN cfg THEN cfg[KeyProcessModule(nid, m)]
    ELSE <<0, last_processed_block>>

\* the modules that need to sync up: no done marker
ModulesToSync(cfg, nid, mods) ==
    {m \in mods : KeyProcessModuleDone(nid, m) \notin DOMAIN cfg}

\* the range keys the scheduling writes: only when the tail is above 0
ModuleRangesSet(cfg, nid, mods, last_processed_block) ==
    [k \in {KeyProcessModule(nid, m) :
               m \in {x \in ModulesToSync(cfg, nid, mods) :
                         /\ KeyProcessModule(nid, x) \notin DOMAIN cfg
                         /\ last_processed_block > 0}}
        |-> <<0, last_processed_block>>]

\* Indexer::process from the top of 'indexing to the spawn of the workers:
\* the barrier on the Sync stage, the first run, and one worker for the
\* tail, for every chunk cursor, and for every module that has to catch up
ProcessStart ==
    /\ ~process_running
    /\ is_leading(Me)
    /\ LET copy_step_started == ConfigValueOr0(config, KeySyncTail(Nid)) > 0
           copy_step_synced == get_many(config, KeySyncChunk(Nid, 0)) = {}
           tail == ConfigValueOr0(config, KeyProcessTail(Nid))
           first_run == /\ tail = 0
                        /\ cpu_count > 0
                        /\ get_many(config, KeyProcessChunk(Nid, 0)) = {}
           last_synced_block_height == ConfigValueOr0(config, KeySyncTail(Nid))
           config1 == IF first_run
                      THEN ProcessFirstRun(config, Nid, last_synced_block_height,
                                           cpu_count, module_ids)
                      ELSE config
           last_processed_block ==
               IF first_run THEN last_synced_block_height - 1 ELSE tail
           chunk_keys == get_many(config1, KeyProcessChunk(Nid, 0))
           range(m) == ModuleRange(config1, Nid, m, last_processed_block)
           module_keys ==
               {KeyProcessModule(Nid, m) :
                   m \in {x \in ModulesToSync(config1, Nid, module_ids) :
                             range(x)[1] < range(x)[2]}}
       IN  /\ copy_step_started
           /\ copy_step_synced
           /\ config' = set_many(config1, ModuleRangesSet(config1, Nid, module_ids,
                                                          last_processed_block))
           /\ process_workers' =
                  [k \in {KeyProcessTail(Nid)} \cup chunk_keys \cup module_keys |->
                      IF k = KeyProcessTail(Nid)
                      THEN ProcessWorker(last_processed_block, NoMax, module_ids)
                      ELSE IF k \in chunk_keys
                           THEN ProcessWorker(config1[k][1], config1[k][2], module_ids)
                      ELSE ProcessWorker(range(k[3])[1], range(k[3])[2], {k[3]})]
           /\ tail_at_done' =
                  [m \in DOMAIN tail_at_done \cup (IF first_run THEN module_ids ELSE {}) |->
                      IF m \in DOMAIN tail_at_done THEN tail_at_done[m]
                      ELSE last_processed_block]
           /\ op' = [kind |-> "process_start", first_run |-> first_run,
                     before |-> Tails(config)]
    /\ process_running' = TRUE
    /\ UNCHANGED <<varsLink, varsWarehouse, varsCatalog, varsReplica, varsSync,
                   module_ids, block_rows, warehouse_data, config_key_map,
                   buffered_tail, processed>>

\* the value a worker pushes for its cursor
config_value(k, block_height, max) ==
    IF k[1] = "IndexerProcessTail" THEN block_height ELSE <<block_height, max>>

\* a chunk or module worker that has reached its maximum pushes its cursor
\* with whatever data it has, asks for a commit, and leaves its loop
ProcessWorkerFinish(k) ==
    /\ process_running
    /\ k \in DOMAIN process_workers
    /\ LET w == process_workers[k]
       IN  /\ w.pc = "run"
           /\ w.max # NoMax
           /\ w.block_height + 1 > w.max
           /\ process_workers' = [process_workers EXCEPT
                  ![k].pc = "pushed",
                  ![k].msg = [value |-> config_value(k, w.block_height, w.max),
                              data |-> w.data, force |-> TRUE, then |-> "done"]]
    /\ op' = NoOp
    /\ UNCHANGED <<varsLink, varsWarehouse, varsCatalog, varsReplica, varsSync, config,
                   module_ids, block_rows, process_running, warehouse_data,
                   config_key_map, buffered_tail, processed, tail_at_done>>

\* the tail worker has caught up with the sync tail: it pushes what it
\* has, asks for a commit, and keeps its data
ProcessTailCaughtUp(k) ==
    /\ process_running
    /\ k \in DOMAIN process_workers
    /\ LET w == process_workers[k]
           last_synced_block_height == ConfigValueOr0(config, KeySyncTail(Nid))
       IN  /\ w.pc = "run"
           /\ w.max = NoMax
           /\ w.block_height + 1 > last_synced_block_height
           /\ DataLen(w.data) # 0
           /\ process_workers' = [process_workers EXCEPT
                  ![k].pc = "pushed",
                  ![k].msg = [value |-> config_value(k, w.block_height, w.max),
                              data |-> w.data, force |-> TRUE, then |-> "run"]]
    /\ op' = NoOp
    /\ UNCHANGED <<varsLink, varsWarehouse, varsCatalog, varsReplica, varsSync, config,
                   module_ids, block_rows, process_running, warehouse_data,
                   config_key_map, buffered_tail, processed, tail_at_done>>

\* one turn of a worker's loop on the next block: block_height += 1,
\* chain.process_block reads the partition (None when there is none, and
\* the worker is done); the worker pushes when it is done or holds more
\* than PUSH_ROWS rows, and clears its data after the push
ProcessWorkerBlock(k) ==
    /\ process_running
    /\ k \in DOMAIN process_workers
    /\ LET w == process_workers[k]
           last_synced_block_height == ConfigValueOr0(config, KeySyncTail(Nid))
           block_height == w.block_height + 1
           is_done == block_height \notin storage
           new_data == IF is_done THEN {}
                       ELSE {<<block_height, m>> : m \in w.modules}
           data == w.data \cup new_data
       IN  /\ w.pc = "run"
           /\ IF w.max = NoMax
              THEN w.block_height + 1 <= last_synced_block_height
              ELSE w.block_height + 1 <= w.max
           /\ processed' = processed \cup new_data
           /\ process_workers' =
                  IF is_done \/ DataLen(data) > PUSH_ROWS
                  THEN [process_workers EXCEPT
                           ![k].block_height = block_height,
                           ![k].data = {},
                           ![k].pc = "pushed",
                           ![k].msg = [value |-> config_value(k, block_height, w.max),
                                       data |-> data, force |-> FALSE,
                                       then |-> IF is_done THEN "done" ELSE "run"]]
                  ELSE [process_workers EXCEPT
                           ![k].block_height = block_height,
                           ![k].data = data]
           /\ op' = [kind |-> "process_block", block_height |-> block_height,
                     found |-> ~is_done]
    /\ UNCHANGED <<varsLink, varsWarehouse, varsCatalog, varsReplica, varsSync, config,
                   module_ids, block_rows, process_running, warehouse_data,
                   config_key_map, buffered_tail, tail_at_done>>

\* the modules whose range cursor in the map has reached its maximum
ModulesDoneIn(map) ==
    {k \in DOMAIN map : k[1] = "IndexerProcessModule" /\ map[k][1] >= map[k][2]}

\* the commit of config_key_map: tail cursors are set, chunk cursors are
\* set or (min >= max) deleted, module cursors are set and their done
\* marker with them when min >= max; the cleanup then deletes the range
\* key of every done marker that is itself a key of the map
commit_config(cfg, map) ==
    LET deleted == {k \in DOMAIN map :
                       k[1] = "IndexerProcessChunk" /\ map[k][1] >= map[k][2]}
        kept == {k \in DOMAIN map \ deleted :
                    k[1] \in {"IndexerProcessTail", "IndexerProcessChunk",
                              "IndexerProcessModule", "IndexerProcessModuleDone"}}
        done == {KeyProcessModuleDone(k[2], k[3]) : k \in ModulesDoneIn(map)}
        cleanup == {KeyProcessModule(k[2], k[3]) :
                       k \in {j \in DOMAIN map : j[1] = "IndexerProcessModuleDone"}}
    IN  delete_many(
            set_many(set_many(delete_many(cfg, deleted), [k \in kept |-> map[k]]),
                     [k \in done |-> 1]),
            cleanup)

\* the stage receives a push: when the replica does not lead any more it
\* aborts the workers and starts over, keeping its batch and its map;
\* otherwise it adds the data to the batch, puts the cursor in the map,
\* commits both when the batch should be committed (`ago` seconds after
\* saved_at), and releases the worker
ProcessReceive(k, ago) ==
    /\ process_running
    /\ k \in DOMAIN process_workers
    /\ process_workers[k].pc = "pushed"
    /\ ago \in SavedAgo
    /\ IF ~is_leading(Me)
       THEN /\ process_running' = FALSE
            /\ process_workers' = <<>>
            /\ op' = [kind |-> "process_abort"]
            /\ UNCHANGED <<config, warehouse_data, config_key_map,
                           buffered_tail, tail_at_done>>
       ELSE LET msg == process_workers[k].msg
                data == warehouse_data \cup msg.data
                map == ConfigSet(config_key_map, k, msg.value)
                pushes == IF k = KeyProcessTail(Nid)
                          THEN buffered_tail \cup {msg.value} ELSE buffered_tail
                committed == commit_config(config, map)
            IN  /\ process_running' = process_running
                /\ process_workers' = [process_workers EXCEPT
                                          ![k].pc = msg.then, ![k].msg = None]
                /\ IF should_commit(data, ago, msg.force)
                   THEN /\ warehouse_data' = {}
                                            /\ config' = committed
                        /\ config_key_map' = <<>>
                        /\ buffered_tail' = {}
                        /\ tail_at_done' =
                               [m \in DOMAIN tail_at_done
                                        \cup {j[3] : j \in ModulesDoneIn(map)} |->
                                   IF m \in DOMAIN tail_at_done THEN tail_at_done[m]
                                   ELSE ConfigValueOr0(committed, KeyProcessTail(Nid))]
                        /\ op' = [kind |-> "process_commit", before |-> Tails(config),
                                  tail_pushes |-> pushes]
                   ELSE /\ warehouse_data' = data
                        /\ config_key_map' = map
                        /\ buffered_tail' = pushes
                        /\ op' = [kind |-> "process_buffer"]
                        /\ UNCHANGED <<config, tail_at_done>>
    /\ UNCHANGED <<varsLink, varsWarehouse, varsCatalog, varsReplica, varsSync,
                   module_ids, block_rows, processed>>

\* futures.join_next() returns None: every worker has left its loop, and
\* the stage starts over with its batch and its map
ProcessJoinNone ==
    /\ process_running
    /\ \A k \in DOMAIN process_workers : process_workers[k].pc = "done"
    /\ process_running' = FALSE
    /\ process_workers' = <<>>
    /\ op' = NoOp
    /\ UNCHANGED <<varsLink, varsWarehouse, varsCatalog, varsReplica, varsSync, config,
                   module_ids, block_rows, warehouse_data, config_key_map,
                   buffered_tail, processed, tail_at_done>>

\* networks_updated.changed(): the stage aborts its workers and returns,
\* which drops its batch and its map; Indexer::start calls it again
ProcessNetworksUpdated ==
    /\ process_running
    /\ process_running' = FALSE
    /\ process_workers' = <<>>
    /\ warehouse_data' = {}
    /\ config_key_map' = <<>>
    /\ buffered_tail' = {}
    /\ op' = [kind |-> "process_abort"]
    /\ UNCHANGED <<varsLink, varsWarehouse, varsCatalog, varsReplica, varsSync, config,
                   module_ids, block_rows, processed, tail_at_done>>

\* the replica, while it does not lead, is restarted with a binary that
\* has one more module; the restart drops what its stages held in memory
DeployModule(m) ==
    /\ m \notin module_ids
    /\ ~is_primary[Me]
    /\ module_ids' = module_ids \cup {m}
    /\ is_primary' = [is_primary EXCEPT ![Me] = FALSE]
    /\ sync_running' = FALSE
    /\ sync_workers' = <<>>
    /\ process_running' = FALSE
    /\ process_workers' = <<>>
    /\ warehouse_data' = {}
    /\ config_key_map' = <<>>
    /\ buffered_tail' = {}
    /\ op' = NoOp
    /\ UNCHANGED <<varsLink, varsWarehouse, varsCatalog, config,
                   is_ready, pc, last_primary, timer, stalled, since_change,
                   chain_tip, cpu_count, storage, sync_first_height,
                   block_rows, processed, tail_at_done>>

\* bounds of the Process model: the cores of the replica, the tip of the
\* chain when the replica comes up and the tip it grows to
ProcessCpuCounts == {1, 2}
ProcessFirstTip == 3
ProcessMaxTip == 3

\* a replica that is up, on a network that has never been synced
InitProcess ==
    /\ op = NoOp
    /\ links = {}
    /\ transfers = {} /\ amounts = {} /\ balances = {}
    /\ networks = {} /\ entities = {} /\ addresses = {}
    /\ address_id_seq = 0
    /\ config = EmptyConfig
    /\ is_ready = [r \in Replicas |-> r = Me]
    /\ is_primary = [r \in Replicas |-> FALSE]
    /\ pc = [r \in Replicas |-> "loop"]
    /\ last_primary = [r \in Replicas |-> None]
    /\ timer = [r \in Replicas |-> 0]
    /\ stalled = {}
    /\ since_change = 0
    /\ chain_tip \in 1..ProcessFirstTip
    /\ cpu_count \in ProcessCpuCounts
    /\ storage = {}
    /\ sync_running = FALSE
    /\ sync_workers = <<>>
    /\ sync_first_height = 0
    /\ module_ids = {1}
    /\ block_rows \in RowCounts
    /\ process_running = FALSE
    /\ process_workers = <<>>
    /\ warehouse_data = {}
    /\ config_key_map = <<>>
    /\ buffered_tail = {}
    /\ processed = {}
    /\ tail_at_done = <<>>

ProcessKeys ==
    {KeyProcessTail(Nid)}
        \cup {KeyProcessChunk(Nid, b) : b \in 0..MaxTip}
        \cup {KeyProcessModule(Nid, m) : m \in ModuleIds}

NextProcess ==
    \/ SyncStart
    \/ \E k \in SyncKeys : SyncChunkWorkerBreak(k)
    \/ \E k \in SyncKeys : SyncWorkerExtract(k)
    \/ \E k \in SyncKeys : SyncReceive(k)
    \/ ProcessStart
    \/ \E k \in ProcessKeys : ProcessWorkerFinish(k)
    \/ \E k \in ProcessKeys : ProcessTailCaughtUp(k)
    \/ \E k \in ProcessKeys : ProcessWorkerBlock(k)
    \/ \E k \in ProcessKeys, ago \in SavedAgo : ProcessReceive(k, ago)
    \/ ProcessJoinNone
    \/ ProcessNetworksUpdated
    \/ \E m \in ModuleIds : DeployModule(m)
    \/ \E b \in BOOLEAN : SetIsPrimary(b)
    \/ ChainGrow /\ chain_tip < ProcessMaxTip

SpecProcess == InitProcess /\ [][NextProcess]_vars

\* the largest height of a non-empty set
MaxHeight(heights) == CHOOSE h \in heights : \A g \in heights : g <= h

\* no step that writes cursors leaves a persisted tail below what it was
TailsNeverDecrease ==
    "before" \in DOMAIN op =>
        /\ Tails(config).sync >= op.before.sync
        /\ Tails(config).process >= op.before.process

\* a commit persists the largest height pushed for the tail key since the
\* map was last cleared
MaxPersisted ==
    (op.kind = "process_commit" /\ op.tail_pushes # {}) =>
        Tails(config).process = MaxHeight(op.tail_pushes)

\* C2: the persisted sync tail and process tail of the network never
\* decrease, over pushes, commits, aborts (networks_updated, leader loss
\* followed by leader regain) and stage restarts; and when several pushes
\* for the tail key are buffered, the maximum height is what is persisted.
C2_MonotonicCursors ==
    /\ TailsNeverDecrease
    /\ MaxPersisted

C4_ModuleCompleteness ==
    \A m \in ModuleIds :
        (/\ KeyProcessModuleDone(Nid, m) \in DOMAIN config
         /\ config[KeyProcessModuleDone(Nid, m)] = 1) =>
            /\ KeyProcessModule(Nid, m) \notin DOMAIN config
            /\ m \in DOMAIN tail_at_done =>
                   \A h \in 0..(tail_at_done[m] - 1) : <<h, m>> \in processed

CursorModules(k) ==
    IF k[1] = "IndexerProcessModule" THEN {k[3]} ELSE module_ids

\* the block height of a cursor value: the tail holds it bare, a chunk or
\* module cursor holds (block_height, max)
CursorHeight(k, value) ==
    IF k[1] = "IndexerProcessTail" THEN value ELSE value[1]

ConfigKeyFields ==
    [Primary |-> <<>>,
     IndexerCopyTailSync |-> <<"i64">>,
     IndexerCopyChunkSync |-> <<"i64", "u64">>,
     IndexerProcessTailSync |-> <<"i64">>,
     IndexerProcessChunkSync |-> <<"i64", "u64">>,
     IndexerProcessModuleSync |-> <<"i64", "u16">>,
     IndexerProcessModuleSynced |-> <<"i64", "u16">>,
     IndexerUpstreamSync |-> <<"i64", "i64">>,
     IndexerProgress |-> <<"i64">>,
     BlockHeight |-> <<"i64">>,
     NetworksUpdated |-> <<>>,
     NewlyAddedAddress |-> <<"i64", "i64">>]

\* #[display(fmt = ..)] of each variant; {_0} and {_1} stand for its fields
display_fmt(variant) ==
    CASE variant = "Primary" ->
           <<"p", "r", "i", "m", "a", "r", "y">>
      [] variant = "IndexerCopyTailSync" ->
           <<"i", "n", "d", "e", "x", "e", "r", "_", "c", "o", "p", "y", "_",
             "t", "a", "i", "l", "_", "s", "y", "n", "c", "_", "n", "{_0}">>
      [] variant = "IndexerCopyChunkSync" ->
           <<"i", "n", "d", "e", "x", "e", "r", "_", "c", "o", "p", "y", "_",
             "c", "h", "u", "n", "k", "_", "s", "y", "n", "c", "_", "n",
             "{_0}", "_", "b", "{_1}">>
      [] variant = "IndexerProcessTailSync" ->
           <<"i", "n", "d", "e", "x", "e", "r", "_", "p", "r", "o", "c", "e",
             "s", "s", "_", "t", "a", "i", "l", "_", "s", "y", "n", "c", "_",
             "n", "{_0}">>
      [] variant = "IndexerProcessChunkSync" ->
           <<"i", "n", "d", "e", "x", "e", "r", "_", "p", "r", "o", "c", "e",
             "s", "s", "_", "c", "h", "u", "n", "k", "_", "s", "y", "n", "c",
             "_", "n", "{_0}", "_", "b", "{_1}">>
      [] variant = "IndexerProcessModuleSync" ->
           <<"i", "n", "d", "e", "x", "e", "r", "_", "p", "r", "o", "c", "e",
             "s", "s", "_", "m", "o", "d", "u", "l", "e", "_", "s", "y", "n",
             "c", "_", "n", "{_0}", "_", "m", "{_1}">>
      [] variant = "IndexerProcessModuleSynced" ->
           <<"i", "n", "d", "e", "x", "e", "r", "_", "p", "r", "o", "c", "e",
             "s", "s", "_", "m", "o", "d", "u", "l", "e", "_", "s", "y", "n",
             "c", "e", "d", "_", "n", "{_0}", "_", "m", "{_1}">>
      [] variant = "IndexerUpstreamSync" ->
           <<"i", "n", "d", "e", "x", "e", "r", "_", "u", "p", "s", "t", "r",
             "e", "a", "m", "_", "s", "y", "n", "c", "_", "n", "{_0}", "_",
             "a", "{_1}">>
      [] variant = "IndexerProgress" ->
           <<"i", "n", "d", "e", "x", "e", "r", "_", "n", "{_0}", "_", "p",
             "r", "o", "g", "r", "e", "s", "s">>
      [] variant = "BlockHeight" ->
           <<"b", "l", "o", "c", "k", "_", "h", "e", "i", "g", "h", "t", "_",
             "n", "{_0}">>
      [] variant = "NetworksUpdated" ->
           <<"n", "e", "t", "w", "o", "r", "k", "s", "_", "u", "p", "d", "a",
             "t", "e", "d">>
      [] variant = "NewlyAddedAddress" ->
           <<"n", "e", "w", "l", "y", "_", "a", "d", "d", "e", "d", "_", "a",
             "d", "d", "r", "e", "s", "s", "_", "n", "{_0}", "_", "a",
             "{_1}">>

\* ConfigKey::to_string of a variant with its fields: the fmt with the
\* digits of the fields in place of {_0} and {_1}
RECURSIVE Display(_, _)
Display(fmt, fields) ==
    IF fmt = <<>> THEN <<>>
    ELSE (IF Head(fmt) = "{_0}" THEN fields[1]
          ELSE IF Head(fmt) = "{_1}" THEN fields[2]
          ELSE <<Head(fmt)>>) \o Display(Tail(fmt), fields)

ConfigKeyToString(key) == Display(display_fmt(key.variant), key.fields)

\* a ConfigKey value, and the panic of From<String>
Key(variant, fields) == [variant |-> variant, fields |-> fields]
Panic == [panic |-> TRUE]

IsDigit(c) == \E i \in 1..10 : DigitChar[i] = c
DigitValue(c) == (CHOOSE i \in 1..10 : DigitChar[i] = c) - 1

\* the length of the run of digits a text starts with
RECURSIVE DigitRun(_)
DigitRun(text) ==
    IF text # <<>> /\ IsDigit(Head(text)) THEN 1 + DigitRun(Tail(text)) ELSE 0

\* re.replace_all(&s, "{}") for the regex (\d+)
RECURSIVE ReplaceAll(_)
ReplaceAll(text) ==
    IF text = <<>> THEN <<>>
    ELSE IF IsDigit(Head(text))
         THEN <<"{", "}">> \o ReplaceAll(SubSeq(text, DigitRun(text) + 1, Len(text)))
    ELSE <<Head(text)>> \o ReplaceAll(Tail(text))

\* re.find_iter(&s): the runs of digits, in order
RECURSIVE FindIter(_)
FindIter(text) ==
    IF text = <<>> THEN <<>>
    ELSE IF IsDigit(Head(text))
         THEN <<SubSeq(text, 1, DigitRun(text))>>
                  \o FindIter(SubSeq(text, DigitRun(text) + 1, Len(text)))
    ELSE FindIter(Tail(text))

\* a run of digits without its leading zeros
RECURSIVE Canonical(_)
Canonical(ds) ==
    IF Len(ds) > 1 /\ Head(ds) = "0" THEN Canonical(Tail(ds)) ELSE ds

\* a <= b for two numbers in canonical digits
RECURSIVE DigitsLeq(_, _)
DigitsLeq(a, b) ==
    IF Len(a) # Len(b) THEN Len(a) < Len(b)
    ELSE IF a = <<>> THEN TRUE
    ELSE IF Head(a) # Head(b) THEN DigitValue(Head(a)) < DigitValue(Head(b))
    ELSE DigitsLeq(Tail(a), Tail(b))

\* i64::MAX, u64::MAX and u16::MAX
I64_MAX == <<"9", "2", "2", "3", "3", "7", "2", "0", "3", "6", "8", "5", "4", "7",
             "7", "5", "8", "0", "7">>
U64_MAX == <<"1", "8", "4", "4", "6", "7", "4", "4", "0", "7", "3", "7", "0", "9",
             "5", "5", "1", "6", "1", "5">>
U16_MAX == <<"6", "5", "5", "3", "5">>

\* .filter_map(|n| n.as_str().parse().ok()).collect::<Vec<i64>>(): a run
\* that does not fit an i64 is dropped
RECURSIVE ParseAll(_)
ParseAll(runs) ==
    IF runs = <<>> THEN <<>>
    ELSE (IF DigitsLeq(Canonical(Head(runs)), I64_MAX)
          THEN <<Canonical(Head(runs))>> ELSE <<>>) \o ParseAll(Tail(runs))

\* the digits of a number modulo m
RECURSIVE ModOf(_, _, _)
ModOf(ds, m, acc) ==
    IF ds = <<>> THEN acc
    ELSE ModOf(Tail(ds), m, (acc * 10 + DigitValue(Head(ds))) % m)

\* `n as u16` of a non-negative i64
AsU16(ds) == Digits(ModOf(ds, 65536, 0))

\* From<String> for ConfigKey
from_string(s) ==
    LET template == ReplaceAll(s)
        n == ParseAll(FindIter(s))
    IN  CASE
          template =
             <<"p", "r", "i", "m", "a", "r", "y">> ->
               Key("Primary", <<>>)
       [] template =
             <<"i", "n", "d", "e", "x", "e", "r", "_", "c", "o", "p", "y",
               "_", "t", "a", "i", "l", "_", "s", "y", "n", "c", "_", "n",
               "{", "}">> /\ Len(n) = 1 ->
               Key("IndexerCopyTailSync", <<n[1]>>)
       [] template =
             <<"i", "n", "d", "e", "x", "e", "r", "_", "c", "o", "p", "y",
               "_", "c", "h", "u", "n", "k", "_", "s", "y", "n", "c", "_",
               "n", "{", "}", "_", "b", "{", "}">> /\ Len(n) = 2 ->
               Key("IndexerCopyChunkSync", <<n[1], n[2]>>)
       [] template =
             <<"i", "n", "d", "e", "x", "e", "r", "_", "p", "r", "o", "c",
               "e", "s", "s", "_", "t", "a", "i", "l", "_", "s", "y", "n",
               "c", "_", "n", "{", "}">> /\ Len(n) = 1 ->
               Key("IndexerProcessTailSync", <<n[1]>>)
       [] template =
             <<"i", "n", "d", "e", "x", "e", "r", "_", "p", "r", "o", "c",
               "e", "s", "s", "_", "c", "h", "u", "n", "k", "_", "s", "y",
               "n", "c", "_", "n", "{", "}", "_", "b", "{", "}">> /\ Len(n) = 2 ->
               Key("IndexerProcessChunkSync", <<n[1], n[2]>>)
       [] template =
             <<"i", "n", "d", "e", "x", "e", "r", "_", "p", "r", "o", "c",
               "e", "s", "s", "_", "m", "o", "d", "u", "l", "e", "_", "s",
               "y", "n", "c", "_", "n", "{", "}", "_", "m", "{", "}">> /\ Len(n) = 2 ->
               Key("IndexerProcessModuleSync", <<n[1], AsU16(n[2])>>)
       [] template =
             <<"i", "n", "d", "e", "x", "e", "r", "_", "p", "r", "o", "c",
               "e", "s", "s", "_", "m", "o", "d", "u", "l", "e", "_", "s",
               "y", "n", "c", "e", "d", "_", "n", "{", "}", "_", "m", "{",
               "}">> /\ Len(n) = 2 ->
               Key("IndexerProcessModuleSynced", <<n[1], AsU16(n[2])>>)
       [] template =
             <<"i", "n", "d", "e", "x", "e", "r", "_", "u", "p", "s", "t",
               "r", "e", "a", "m", "_", "s", "y", "n", "c", "_", "n", "{",
               "}", "_", "a", "{", "}">> /\ Len(n) = 2 ->
               Key("IndexerUpstreamSync", <<n[1], n[2]>>)
       [] template =
             <<"i", "n", "d", "e", "x", "e", "r", "_", "n", "{", "}", "_",
               "p", "r", "o", "g", "r", "e", "s", "s">> /\ Len(n) = 1 ->
               Key("IndexerProgress", <<n[1]>>)
       [] template =
             <<"b", "l", "o", "c", "k", "_", "h", "e", "i", "g", "h", "t",
               "_", "n", "{", "}">> /\ Len(n) = 1 ->
               Key("BlockHeight", <<n[1]>>)
       [] template =
             <<"n", "e", "t", "w", "o", "r", "k", "s", "_", "u", "p", "d",
               "a", "t", "e", "d">> ->
               Key("NetworksUpdated", <<>>)
       [] template =
             <<"n", "e", "w", "l", "y", "_", "a", "d", "d", "e", "d", "_",
               "a", "d", "d", "r", "e", "s", "s", "_", "n", "{", "}", "_",
               "a", "{", "}">> /\ Len(n) = 2 ->
               Key("NewlyAddedAddress", <<n[1], n[2]>>)
       [] OTHER -> Panic

\* the numbers the fields of a key are drawn from, by type
I64Values == {<<"0">>, <<"7">>, <<"1", "2", "3">>, I64_MAX}
U16Values == {<<"0">>, <<"7">>, <<"4", "5", "6">>, U16_MAX}
U64Values ==
    I64Values \cup
        {<<"9", "2", "2", "3", "3", "7", "2", "0", "3", "6", "8", "5", "4", "7",
           "7", "5", "8", "0", "8">>, U64_MAX}

FieldValues(type) ==
    CASE type = "i64" -> I64Values
      [] type = "u16" -> U16Values
      [] type = "u64" -> U64Values

\* every ConfigKey with fields from these numbers
KeyInputs ==
    UNION {{Key(v, f) :
               f \in {g \in [1..Len(ConfigKeyFields[v]) ->
                                I64Values \cup U16Values \cup U64Values] :
                         \A i \in 1..Len(ConfigKeyFields[v]) :
                             g[i] \in FieldValues(ConfigKeyFields[v][i])}} :
           v \in DOMAIN ConfigKeyFields}

\* nothing stored, no replica and no stage running
InitIdle ==
    /\ links = {}
    /\ transfers = {} /\ amounts = {} /\ balances = {}
    /\ networks = {} /\ entities = {} /\ addresses = {}
    /\ address_id_seq = 0
    /\ config = EmptyConfig
    /\ InitReplicaIdle
    /\ InitSyncIdle
    /\ InitProcessIdle

varsIdle == <<varsLink, varsWarehouse, varsCatalog, config, varsReplica, varsSync,
              varsProcess>>

\* a key is written out, and the text is decoded again
InitKey ==
    /\ op \in {[kind |-> "key", key |-> k] : k \in KeyInputs}
    /\ InitIdle

KeyToString ==
    /\ op.kind = "key"
    /\ op' = [kind |-> "key_text", key |-> op.key, text |-> ConfigKeyToString(op.key)]
    /\ UNCHANGED varsIdle

KeyFromString ==
    /\ op.kind = "key_text"
    /\ op' = [kind |-> "key_decoded", key |-> op.key, text |-> op.text,
              decoded |-> from_string(op.text)]
    /\ UNCHANGED varsIdle

NextKey == KeyToString \/ KeyFromString

SpecKey == InitKey /\ [][NextKey]_vars

\* the strings of tests::test_config_key_str for two of the variants
KeyTexts ==
    /\ ConfigKeyToString(Key("IndexerCopyChunkSync",
                             <<<<"1", "2", "3">>, <<"4", "5", "6">>>>)) =
           <<"i", "n", "d", "e", "x", "e", "r", "_", "c", "o", "p", "y", "_",
             "c", "h", "u", "n", "k", "_", "s", "y", "n", "c", "_",
             "n", "1", "2", "3", "_", "b", "4", "5", "6">>
    /\ ConfigKeyToString(Key("IndexerProgress", <<<<"1", "2", "3">>>>)) =
           <<"i", "n", "d", "e", "x", "e", "r", "_", "n", "1", "2", "3", "_",
             "p", "r", "o", "g", "r", "e", "s", "s">>

\* C12: for every ConfigKey variant and every non-negative number in its
\* fields, decoding the text of the key gives the same key, and the text
\* is the template of the variant with the numbers in place.
C12_KeyEncodingSymmetric ==
    /\ KeyTexts
    /\ op.kind = "key_decoded" => op.decoded = op.key

(***************************************************************************)
(* Part 7. Config::set_many followed by Config::get_many                   *)
(***************************************************************************)

\* json!(value).to_string() of a (BlockHeight, BlockHeight)
ToJson(value) ==
    <<"[">> \o Digits(value[1]) \o <<",">> \o Digits(value[2]) \o <<"]">>

\* the number a run of digits stands for
RECURSIVE NatOf(_, _)
NatOf(ds, acc) ==
    IF ds = <<>> THEN acc ELSE NatOf(Tail(ds), acc * 10 + DigitValue(Head(ds)))

\* serde_json::from_str::<(BlockHeight, BlockHeight)>
FromJson(text) ==
    LET comma == CHOOSE i \in 1..Len(text) : text[i] = ","
    IN  <<NatOf(SubSeq(text, 2, comma - 1), 0),
          NatOf(SubSeq(text, comma + 1, Len(text) - 1), 0)>>

\* the chunk maxima and module or address ids of the rows of the table
ChunkMaxes == {0, 1, 12, 120}
RowIds == {1, 12}

\* the templates get_many is called with: chunk cursors of a network
Templates(nid) == {KeySyncChunk(nid, 0), KeyProcessChunk(nid, 0)}

\* every key the table can hold
AllRowKeys ==
    {KeyPrimary, KeyNetworksUpdated}
        \cup {KeyBlockHeight(n) : n \in NetworkIds}
        \cup {KeySyncTail(n) : n \in NetworkIds}
        \cup {KeyProcessTail(n) : n \in NetworkIds}
        \cup {KeySyncChunk(n, b) : n \in NetworkIds, b \in ChunkMaxes}
        \cup {KeyProcessChunk(n, b) : n \in NetworkIds, b \in ChunkMaxes}
        \cup {KeyProcessModule(n, m) : n \in NetworkIds, m \in RowIds}
        \cup {KeyProcessModuleDone(n, m) : n \in NetworkIds, m \in RowIds}
        \cup {KeyNewlyAddedAddress(n, a) : n \in NetworkIds, a \in RowIds}
        \cup {KeyIndexerLink(n, a) : n \in NetworkIds, a \in RowIds}

\* the keys of a template for its network
KeysOf(template) == {k \in AllRowKeys : k[1] = template[1] /\ k[2] = template[2]}

\* the table holds a row for every key of the other networks and templates;
\* chunk cursors (min, max) of a template are given
InitBulk ==
    /\ \E n \in NetworkIds : \E template \in Templates(n) :
       \E keys \in SUBSET KeysOf(template) :
           /\ op = [kind |-> "bulk", template |-> template,
                    values |-> [k \in keys |-> <<k[3] \div 2, k[3]>>]]
           /\ config = [k \in AllRowKeys \ KeysOf(template) |-> ToJson(<<0, 7>>)]
    /\ links = {}
    /\ transfers = {} /\ amounts = {} /\ balances = {}
    /\ networks = {} /\ entities = {} /\ addresses = {}
    /\ address_id_seq = 0
    /\ InitReplicaIdle
    /\ InitSyncIdle
    /\ InitProcessIdle

varsBulkIdle == <<varsLink, varsWarehouse, varsCatalog, varsReplica, varsSync,
                  varsProcess>>

\* Config::set_many of the values, as JSON
BulkSetMany ==
    /\ op.kind = "bulk"
    /\ config' = set_many(config, [k \in DOMAIN op.values |-> ToJson(op.values[k])])
    /\ op' = [op EXCEPT !.kind = "bulk_set"]
    /\ UNCHANGED varsBulkIdle

\* Config::get_many with the template
BulkGetMany ==
    /\ op.kind = "bulk_set"
    /\ op' = [kind |-> "bulk_get", template |-> op.template, values |-> op.values,
              result |-> [k \in get_many(config, op.template) |-> FromJson(config[k])]]
    /\ UNCHANGED <<config, varsBulkIdle>>

NextBulk == BulkSetMany \/ BulkGetMany

SpecBulk == InitBulk /\ [][NextBulk]_vars

\* C13: set_many followed by get_many with the zero-placeholder template
\* returns exactly the keys written for that network, with the values that
\* were written: every key of the template for the network, and no key of
\* another network or another template.
C13_SetManyGetMany ==
    op.kind = "bulk_get" => op.result = op.values

\* three chunk cursors were written next to the rows of the other network
\* and of the other templates, and get_many has returned
C13_Witness ==
    /\ op.kind = "bulk_get"
    /\ Cardinality(DOMAIN op.values) >= 3
    /\ Cardinality(DOMAIN config) > Cardinality(DOMAIN op.values)

(***************************************************************************)
(* Part 8. The UTXO modules: BitcoinTransfer and BitcoinCoinbase           *)
(***************************************************************************)

\* An f64 other than zero is a mantissa of 53 bits, the first of them 1,
\* and the exponent e of its last bit: its value is mantissa * 2^e.  Zero
\* has the empty mantissa.
F64Zero == [m |-> <<>>, e |-> 0]

\* one more than a run of bits
RECURSIVE IncBits(_)
IncBits(bits) ==
    IF bits = <<>> THEN <<1>>
    ELSE IF bits[Len(bits)] = 0 THEN [bits EXCEPT ![Len(bits)] = 1]
    ELSE Append(IncBits(SubSeq(bits, 1, Len(bits) - 1)), 0)

\* the natural number a run of bits stands for
RECURSIVE NatOfBits(_)
NatOfBits(bits) ==
    IF bits = <<>> THEN 0
    ELSE 2 * NatOfBits(SubSeq(bits, 1, Len(bits) - 1)) + bits[Len(bits)]

\* round to nearest, ties to even: 53 kept bits, rounded up or not
F64Finish(kept, up, e) ==
    IF ~up THEN [m |-> kept, e |-> e]
    ELSE LET inc == IncBits(kept)
         IN  IF Len(inc) = 54 THEN [m |-> SubSeq(inc, 1, 53), e |-> e + 1]
             ELSE [m |-> inc, e |-> e]

\* scale num / den into [1, 2); e is the exponent of the leading bit
RECURSIVE F64Norm(_, _, _)
F64Norm(num, den, e) ==
    IF num < den THEN F64Norm(2 * num, den, e - 1)
    ELSE IF num >= 2 * den THEN F64Norm(num, 2 * den, e + 1)
    ELSE [num |-> num, den |-> den, e |-> e]

\* n more bits of the quotient by long division
RECURSIVE QuotientBits(_, _, _)
QuotientBits(rem, den, n) ==
    IF n = 0 THEN <<>>
    ELSE LET b == IF 2 * rem >= den THEN 1 ELSE 0
         IN  <<b>> \o QuotientBits(2 * rem - b * den, den, n - 1)

\* the remainder of the long division after n more bits
RECURSIVE QuotientRem(_, _, _)
QuotientRem(rem, den, n) ==
    IF n = 0 THEN rem
    ELSE QuotientRem((2 * rem) % den, den, n - 1)

\* a as f64 / t as f64, for integers below 2^53 and t > 0
F64Div(a, t) ==
    IF a = 0 THEN F64Zero
    ELSE LET n == F64Norm(a, t, 0)
             bits == <<1>> \o QuotientBits(n.num - n.den, n.den, 52)
             rem == QuotientRem(n.num - n.den, n.den, 52)
             up == \/ 2 * rem > n.den
                   \/ 2 * rem = n.den /\ bits[53] = 1
         IN  F64Finish(bits, up, n.e - 52)

\* the bits of a run of bits times c, plus a carry
RECURSIVE MulBits(_, _, _)
MulBits(bits, c, carry) ==
    IF carry = 0 /\ bits = <<>> THEN <<>>
    ELSE IF bits = <<>> THEN Append(MulBits(<<>>, c, carry \div 2), carry % 2)
    ELSE LET v == bits[Len(bits)] * c + carry
         IN  Append(MulBits(SubSeq(bits, 1, Len(bits) - 1), c, v \div 2), v % 2)

\* x * (c as f64), for an integer c below 2^53
F64Mul(x, c) ==
    IF x = F64Zero \/ c = 0 THEN F64Zero
    ELSE LET p == MulBits(x.m, c, 0)
             d == Len(p) - 53
         IN  IF d = 0 THEN [m |-> p, e |-> x.e]
             ELSE LET kept == SubSeq(p, 1, 53)
                      sticky == \E i \in 55..Len(p) : p[i] = 1
                      up == p[54] = 1 /\ (sticky \/ kept[53] = 1)
                  IN  F64Finish(kept, up, x.e + d)

\* f64::round (half away from zero), then amount.to_string() read by
\* U256::from_str_radix: the integer it prints
F64Round(x) ==
    IF x = F64Zero THEN 0
    ELSE LET f == 0 - x.e
         IN  IF f <= 0 THEN NatOfBits(x.m) * 2 ^ x.e
             ELSE IF f > 53 THEN 0
             ELSE NatOfBits(SubSeq(x.m, 1, 53 - f)) + x.m[53 - f + 1]

\* into_values().sum() of an address -> value map
RECURSIVE SumValues(_)
SumValues(map) ==
    IF DOMAIN map = {} THEN 0
    ELSE LET a == CHOOSE x \in DOMAIN map : TRUE
         IN  map[a] + SumValues([x \in DOMAIN map \ {a} |-> map[x]])

\* BitcoinTransfer::run
BitcoinTransferRun(tx) ==
    IF tx.is_coinbase THEN {}
    ELSE LET input_amount_total == SumValues(tx.inputs)
             output_amount_total == SumValues(tx.outputs)
             amount(from, to) ==
                 IF input_amount_total > 0
                 THEN F64Round(F64Mul(F64Div(tx.inputs[from], input_amount_total),
                                      tx.outputs[to]))
                 ELSE 0
         IN  {[module_id |-> "BitcoinTransfer",
               from_address |-> from, to_address |-> to,
               relative_amount |-> amount(from, to),
               batch_amount |-> output_amount_total] :
                   <<from, to>> \in {pair \in (DOMAIN tx.inputs) \X (DOMAIN tx.outputs) :
                                        pair[1] # pair[2]}}

\* a variant that gives every output the batch amount
BitcoinCoinbaseRun_batch_only(tx) ==
    IF tx.is_coinbase
    THEN {[module_id |-> "BitcoinCoinbase",
           from_address |-> "", to_address |-> to,
           relative_amount |-> SumValues(tx.outputs),
           batch_amount |-> SumValues(tx.outputs)] : to \in DOMAIN tx.outputs}
    ELSE {}

\* BitcoinCoinbase::run
BitcoinCoinbaseRun(tx) ==
    IF tx.is_coinbase
    THEN {[module_id |-> "BitcoinCoinbase",
           from_address |-> "", to_address |-> to,
           relative_amount |-> tx.outputs[to],
           batch_amount |-> SumValues(tx.outputs)] : to \in DOMAIN tx.outputs}
    ELSE {}

\* addresses and values of the transactions drawn
InputAddresses == {"A", "B"}
OutputAddresses == {"B", "C"}
InputValues == {0, 3, 7, 100}
OutputValues == {40, 45, 60}

Maps(keys, values) == UNION {[ks -> values] : ks \in SUBSET keys}

\* Bitcoin::process_transaction reads no input of a coinbase transaction
Transactions ==
    {[is_coinbase |-> FALSE, inputs |-> i, outputs |-> o] :
        i \in Maps(InputAddresses, InputValues),
        o \in Maps(OutputAddresses, OutputValues)}
    \cup {[is_coinbase |-> TRUE, inputs |-> <<>>, outputs |-> o] :
        o \in Maps(OutputAddresses, OutputValues)}

InitUtxo ==
    /\ op \in {[kind |-> "tx", tx |-> tx] : tx \in Transactions}
    /\ InitIdle

\* Bitcoin::process_transaction with both modules enabled
ProcessTransaction ==
    /\ op.kind = "tx"
    /\ op' = [kind |-> "tx_done", tx |-> op.tx,
              transfers |-> BitcoinTransferRun(op.tx) \cup BitcoinCoinbaseRun(op.tx)]
    /\ UNCHANGED varsIdle

NextUtxo == ProcessTransaction

SpecUtxo == InitUtxo /\ [][NextUtxo]_vars

\* rows of a module among the rows of a processed transaction
RowsOf(module_id) == {t \in op.transfers : t.module_id = module_id}

\* round(a / t * c), halves rounded up
RoundRatio(a, t, c) == (2 * a * c + t) \div (2 * t)

\* C14: for a transaction that is not a coinbase, with inputs I and outputs
\* O, the Transfer module emits exactly one Transfer for every pair (from in
\* I, to in O, from # to), with relative_amount = round(I[from] / sum(I) *
\* O[to]) and batch_amount = sum(O); the Coinbase module emits nothing.
C14_UtxoTransferSplit ==
    (op.kind = "tx_done" /\ ~op.tx.is_coinbase) =>
        LET I == op.tx.inputs
            O == op.tx.outputs
            pairs == {p \in (DOMAIN I) \X (DOMAIN O) : p[1] # p[2]}
            rows(p) == {t \in RowsOf("BitcoinTransfer") :
                            t.from_address = p[1] /\ t.to_address = p[2]}
        IN  /\ RowsOf("BitcoinCoinbase") = {}
            /\ \A t \in RowsOf("BitcoinTransfer") :
                   <<t.from_address, t.to_address>> \in pairs
            /\ \A p \in pairs :
                   /\ Cardinality(rows(p)) = 1
                   /\ \A t \in rows(p) :
                          /\ t.batch_amount = SumValues(O)
                          /\ SumValues(I) > 0 =>
                                 t.relative_amount =
                                     RoundRatio(I[p[1]], SumValues(I), O[p[2]])

\* C15: for a coinbase transaction with outputs O, the Coinbase module emits
\* exactly one Transfer for every output address, with an empty
\* from_address, relative_amount = O[to] and batch_amount = sum(O); the
\* Transfer module emits nothing.
C15_Coinbase ==
    (op.kind = "tx_done" /\ op.tx.is_coinbase) =>
        LET O == op.tx.outputs
            rows(to) == {t \in RowsOf("BitcoinCoinbase") : t.to_address = to}
        IN  /\ RowsOf("BitcoinTransfer") = {}
            /\ \A t \in RowsOf("BitcoinCoinbase") : t.to_address \in DOMAIN O
            /\ \A to \in DOMAIN O :
                   /\ Cardinality(rows(to)) = 1
                   /\ \A t \in rows(to) :
                          /\ t.from_address = ""
                          /\ t.relative_amount = O[to]
                          /\ t.batch_amount = SumValues(O)

\* a coinbase transaction with two outputs has been processed
C15_Witness ==
    /\ op.kind = "tx_done"
    /\ op.tx.is_coinbase
    /\ Cardinality(DOMAIN op.tx.outputs) = 2
    /\ Cardinality(RowsOf("BitcoinCoinbase")) = 2

(***************************************************************************)
(* Part 9. The account-based adapter: the token-transfer module            *)
(***************************************************************************)

\* keccak256("Transfer(address,address,uint256)") in hex, and the topic of
\* another event (Approval)
TRANSFER_FROM_TO_AMOUNT == "ddf252ad1be2c89b69c2b068fc378daa952ba7f163c4a11628f55a4df523b3ef"
ApprovalTopic == "8c5be1e5ebec7d5bd14f71427d1e84f3dd0314c0f7b2291e5b200ac8c7c3b925"

\* U256::decode(log.data).unwrap_or_default(): data is a run of 32-byte
\* words, and a single word decodes to its number
DecodeU256(data) == IF Len(data) = 1 THEN data[1] ELSE 0

\* a variant that does not count the topics
get_topic_any_length(log) ==
    IF Len(log.topics) >= 3 /\ log.topics[1] = TRANSFER_FROM_TO_AMOUNT
    THEN [topic |-> "Erc20Transfer", from |-> log.topics[2], to |-> log.topics[3],
          amount |-> DecodeU256(log.data)]
    ELSE [topic |-> "Unknown"]

\* Evm::get_topic
get_topic(log) ==
    IF Len(log.topics) = 3 /\ log.topics[1] = TRANSFER_FROM_TO_AMOUNT
    THEN [topic |-> "Erc20Transfer", from |-> log.topics[2], to |-> log.topics[3],
          amount |-> DecodeU256(log.data)]
    ELSE [topic |-> "Unknown"]

\* EvmErc20Transfer::run on the logs of a receipt; Transfer::new gives every
\* row a new uuid, which is here the position of its log
RECURSIVE EvmErc20TransferRun(_, _)
EvmErc20TransferRun(logs, i) ==
    IF i > Len(logs) THEN {}
    ELSE LET log == logs[i]
             rest == EvmErc20TransferRun(logs, i + 1)
             topic == get_topic(log)
         IN  IF log.removed = "Some(true)" THEN rest
             ELSE IF topic.topic = "Erc20Transfer" /\ topic.amount > 0
             THEN {[uuid |-> i, module_id |-> "EvmErc20Transfer",
                    from_address |-> topic.from, to_address |-> topic.to,
                    asset_address |-> log.address,
                    relative_amount |-> topic.amount,
                    batch_amount |-> topic.amount]} \cup rest
             ELSE rest

\* the logs and receipts drawn
LogTopics ==
    {<<>>,
     <<TRANSFER_FROM_TO_AMOUNT, "A">>,
     <<TRANSFER_FROM_TO_AMOUNT, "A", "B">>,
     <<TRANSFER_FROM_TO_AMOUNT, "A", "B", "N">>,
     <<ApprovalTopic, "A", "B">>}
LogData == {<<>>, <<0>>, <<1000>>}
Logs ==
    [removed : {"None", "Some(true)", "Some(false)"}, topics : LogTopics, data : LogData,
     address : {"T"}]
MaxLogs == 2
Receipts ==
    [status : {"None", "Some(0)", "Some(1)"},
     logs : UNION {[1..n -> Logs] : n \in 0..MaxLogs}]

InitEvm ==
    /\ op \in {[kind |-> "receipt", receipt |-> r] : r \in Receipts}
    /\ InitIdle

\* Evm::process_block on one transaction of the block that has a receipt:
\* a reverted transaction is skipped, any other goes through
\* process_transaction with the token-transfer module enabled
EvmProcessTransaction ==
    /\ op.kind = "receipt"
    /\ op' = [kind |-> "receipt_done", receipt |-> op.receipt,
              transfers |-> IF op.receipt.status = "Some(0)" THEN {}
                            ELSE EvmErc20TransferRun(op.receipt.logs, 1)]
    /\ UNCHANGED varsIdle

NextEvm == EvmProcessTransaction

SpecEvm == InitEvm /\ [][NextEvm]_vars

\* C16: for every log of the receipt of a transaction that is not reverted,
\* the token-transfer module emits a Transfer (asset_address = the address
\* of the log, relative_amount = batch_amount = the amount) if and only if
\* the log is not marked removed, has exactly three topics, its first topic
\* is the ERC-20 Transfer signature and the decoded amount is above 0; a
\* transaction whose receipt status is 0 gives no row at all.
C16_Erc20Transfer ==
    op.kind = "receipt_done" =>
        LET logs == op.receipt.logs
            rows(i) == {t \in op.transfers : t.uuid = i}
            amount(i) == DecodeU256(logs[i].data)
            emits(i) ==
                /\ logs[i].removed # "Some(true)"
                /\ Len(logs[i].topics) = 3
                /\ logs[i].topics[1] = TRANSFER_FROM_TO_AMOUNT
                /\ amount(i) > 0
        IN  IF op.receipt.status = "Some(0)" THEN op.transfers = {}
            ELSE /\ \A t \in op.transfers : t.uuid \in 1..Len(logs)
                 /\ \A i \in 1..Len(logs) :
                        IF emits(i)
                        THEN rows(i) = {[uuid |-> i, module_id |-> "EvmErc20Transfer",
                                         from_address |-> logs[i].topics[2],
                                         to_address |-> logs[i].topics[3],
                                         asset_address |-> logs[i].address,
                                         relative_amount |-> amount(i),
                                         batch_amount |-> amount(i)]}
                        ELSE rows(i) = {}

\* a receipt of a transaction that went through, with a Transfer log of
\* 1000 and a log with four topics, has been processed into one row
C16_Witness ==
    /\ op.kind = "receipt_done"
    /\ op.receipt.status = "Some(1)"
    /\ Len(op.receipt.logs) = 2
    /\ op.receipt.logs[1].removed = "Some(false)"
    /\ op.receipt.logs[1].topics = <<TRANSFER_FROM_TO_AMOUNT, "A", "B">>
    /\ op.receipt.logs[1].data = <<1000>>
    /\ Len(op.receipt.logs[2].topics) = 4
    /\ Cardinality(op.transfers) = 1

(***************************************************************************)
(* Part 10. Indexer::start: the outer loop, the three stage tasks and the  *)
(* networks_updated channel                                                *)
(***************************************************************************)

\* The state of one replica's scheduler is the record op:
\*   marker     updated_at of the networks_updated row
\*   checked    networks_updated_at of networks_check, once has_checked
\*              (after its first Config::get)
\*   notified   the stages whose watch receiver holds an unseen value
\*   pc         where each stage task is: at the top of its 'indexing loop,
\*              in the select! next to its workers, or returned
\*   leading    App::is_leading
\*   has_networks  app.networks is not empty
\*   synced     some network has a sync tail above 0 and no sync chunk left
\*   pending    the marker has changed and Indexer::start has not re-entered
\*              its outer loop since
Stages == {"sync", "process", "link"}

\* the number of changes of the marker
MaxMarker == 2

\* the stage finds work: Sync has a tail range for every network, Process
\* needs a network that passed the barrier
HasWork(o, s) ==
    IF s = "process" THEN o.has_networks /\ o.synced ELSE o.has_networks

\* an iteration of the outer loop of Indexer::start: prune_data, a new
\* watch channel, and the three stage tasks spawned
StartIteration(o) ==
    [o EXCEPT !.pc = [s \in Stages |-> "top"],
              !.notified = {},
              !.has_checked = FALSE,
              !.pending = FALSE]

InitSched ==
    /\ \E leading \in BOOLEAN : \E has_networks \in BOOLEAN :
           op = StartIteration(
                    [kind |-> "sched", marker |-> 0, checked |-> 0,
                     has_checked |-> FALSE,
                     notified |-> {}, pc |-> [s \in Stages |-> "top"],
                     leading |-> leading, has_networks |-> has_networks,
                     synced |-> FALSE, pending |-> FALSE])
    /\ InitIdle

\* a create, update or delete of a network by the server bumps the marker;
\* the set of networks may become empty or not
MarkerChange ==
    /\ op.marker < MaxMarker
    /\ \E has_networks \in BOOLEAN :
           op' = [op EXCEPT !.marker = @ + 1,
                            !.pending = TRUE,
                            !.has_networks = has_networks,
                            !.synced = @ /\ has_networks]
    /\ UNCHANGED varsIdle

\* primary_check gains or loses leadership
SchedSetIsPrimary ==
    /\ op' = [op EXCEPT !.leading = ~@]
    /\ UNCHANGED varsIdle

\* networks_check: the first read of the marker, then one poll a second
NetworksCheck ==
    /\ \E s \in Stages : op.pc[s] # "returned"
    /\ IF ~op.has_checked
       THEN op' = [op EXCEPT !.checked = op.marker, !.has_checked = TRUE]
       ELSE /\ op.checked # op.marker
            /\ op' = [op EXCEPT !.checked = op.marker, !.notified = Stages]
    /\ UNCHANGED varsIdle

\* the top of the 'indexing loop of a stage: sleep and continue while not
\* leading or without work, else spawn the workers and enter the select!
StageTop(s) ==
    /\ op.pc[s] = "top"
    /\ op' = IF op.leading /\ HasWork(op, s)
             THEN [op EXCEPT !.pc[s] = "select"]
             ELSE op
    /\ UNCHANGED varsIdle

\* the select! of a stage: networks_updated.changed()
StageNetworksUpdated(s) ==
    /\ op.pc[s] = "select"
    /\ s \in op.notified
    /\ op' = [op EXCEPT !.pc[s] = "returned", !.notified = @ \ {s}]
    /\ UNCHANGED varsIdle

\* the select! of a stage: a message of a worker while not leading
StageNotLeading(s) ==
    /\ op.pc[s] = "select"
    /\ ~op.leading
    /\ op' = [op EXCEPT !.pc[s] = "top"]
    /\ UNCHANGED varsIdle

\* the workers of Sync finish the chunks of a network
SyncChunksDone ==
    /\ op.pc["sync"] = "select"
    /\ op.leading
    /\ op.has_networks
    /\ ~op.synced
    /\ op' = [op EXCEPT !.synced = TRUE]
    /\ UNCHANGED varsIdle

\* Indexer::start: every stage task has returned Ok, the loop starts over
StartLoop ==
    /\ \A s \in Stages : op.pc[s] = "returned"
    /\ op' = StartIteration(op)
    /\ UNCHANGED varsIdle

NextSched ==
    \/ MarkerChange
    \/ SchedSetIsPrimary
    \/ NetworksCheck
    \/ \E s \in Stages : StageTop(s)
    \/ \E s \in Stages : StageNetworksUpdated(s)
    \/ \E s \in Stages : StageNotLeading(s)
    \/ SyncChunksDone
    \/ StartLoop

\* every task of the replica keeps being scheduled
SpecSched ==
    /\ InitSched
    /\ [][NextSched]_vars
    /\ WF_vars(NetworksCheck)
    /\ \A s \in Stages : WF_vars(StageTop(s))
    /\ \A s \in Stages : WF_vars(StageNetworksUpdated(s))
    /\ \A s \in Stages : WF_vars(StageNotLeading(s))
    /\ WF_vars(SyncChunksDone)
    /\ WF_vars(StartLoop)

\* C17: whenever the networks_updated marker changes, the three stages are
\* aborted and Indexer::start re-enters its outer loop (prune_data runs
\* again and the three stages are started again), whatever each stage is
\* doing at that moment.
C17_SchedulerRestart ==
    (op.kind = "sched" /\ op.pending) ~> (op.kind = "sched" /\ ~op.pending)

(***************************************************************************)
(* Part 11. The network handlers of the server: create, update, delete     *)
(***************************************************************************)

UpperLetters ==
    <<"A", "B", "C", "D", "E", "F", "G", "H", "I", "J", "K", "L", "M",
      "N", "O", "P", "Q", "R", "S", "T", "U", "V", "W", "X", "Y", "Z">>
LowerLetters ==
    <<"a", "b", "c", "d", "e", "f", "g", "h", "i", "j", "k", "l", "m",
      "n", "o", "p", "q", "r", "s", "t", "u", "v", "w", "x", "y", "z">>

\* str::to_lowercase and SQL lower() on a text of letters
to_lowercase(text) ==
    [i \in 1..Len(text) |->
        IF \E j \in 1..Len(UpperLetters) : UpperLetters[j] = text[i]
        THEN LowerLetters[CHOOSE j \in 1..Len(UpperLetters) : UpperLetters[j] = text[i]]
        ELSE text[i]]

\* str::trim
RECURSIVE trim(_)
trim(text) ==
    IF text = <<>> THEN text
    ELSE IF Head(text) = " " THEN trim(Tail(text))
    ELSE IF text[Len(text)] = " " THEN trim(SubSeq(text, 1, Len(text) - 1))
    ELSE text

\* an Option: None is <<>>, Some(v) is <<v>>
Opt(values) == {<<>>} \cup {<<v>> : v \in values}

\* a row of the networks table
NetworkRow(network_id, name, architecture, chain_id) ==
    [network_id |-> network_id, name |-> name, architecture |-> architecture,
     chain_id |-> chain_id, is_deleted |-> FALSE]

\* the rows a query filtered by Option<is_deleted> looks at
ByDeleted(rows, is_deleted) ==
    IF is_deleted = <<>> THEN rows
    ELSE {r \in rows : r.is_deleted = is_deleted[1]}

\* Network::get_by_name: the rows it can return
get_by_name(rows, name, is_deleted) ==
    {r \in ByDeleted(rows, is_deleted) :
        to_lowercase(r.name) = to_lowercase(trim(name))}

\* Network::get_by_architecture_and_chain_id: the rows it can return
get_by_architecture_and_chain_id(rows, architecture, chain_id, is_deleted) ==
    {r \in ByDeleted(rows, is_deleted) :
        r.architecture = architecture /\ r.chain_id = chain_id}

\* the requests drawn
Names ==
    {<<"M", "a", "i", "n">>, <<"m", "a", "i", "n">>, <<"T", "e", "s", "t">>}
Architectures == {"Bitcoin", "Evm"}
ChainIds == {0, 1}
MaxNetworks == 3

InitNetworks ==
    /\ op = NoOp
    /\ links = {}
    /\ transfers = {} /\ amounts = {} /\ balances = {}
    /\ networks = {} /\ entities = {} /\ addresses = {}
    /\ address_id_seq = 0
    /\ config = EmptyConfig
    /\ InitReplicaIdle
    /\ InitSyncIdle
    /\ InitProcessIdle

varsNetworksIdle == <<varsLink, varsWarehouse, entities, addresses, address_id_seq,
                      varsReplica, varsSync, varsProcess>>

\* POST /v1/networks without an id, on an endpoint that answers
NetworksCreate(name, architecture, chain_id) ==
    /\ Cardinality(networks) < MaxNetworks
    /\ IF get_by_name(networks, name, <<TRUE>>) # {}
       THEN /\ op' = [kind |-> "network_create", result |-> "TooEarly"]
            /\ UNCHANGED <<networks, config>>
       ELSE IF get_by_name(networks, name, <<>>) # {}
       THEN /\ op' = [kind |-> "network_create", result |-> "Duplicate name"]
            /\ UNCHANGED <<networks, config>>
       ELSE IF get_by_architecture_and_chain_id(networks, architecture, chain_id, <<>>) # {}
       THEN /\ op' = [kind |-> "network_create", result |-> "Duplicate chainId"]
            /\ UNCHANGED <<networks, config>>
       ELSE /\ networks' = networks \cup
                   {NetworkRow(Cardinality(networks) + 1, name, architecture, chain_id)}
            /\ config' = ConfigSet(config, KeyNetworksUpdated, 1)
            /\ op' = [kind |-> "network_create", result |-> "Ok"]
    /\ UNCHANGED varsNetworksIdle

\* the name check of the update handler: network is the row that was read
\* by network_id
update_name_is_duplicate(rows, network_id, network, name) ==
    /\ network_id # network.network_id
    /\ to_lowercase(trim(network.name)) = to_lowercase(trim(name))

\* PUT /v1/networks/:id
NetworksUpdate(network_id, name, architecture, chain_id) ==
    /\ \E network \in {r \in networks : r.network_id = network_id /\ ~r.is_deleted} :
         IF name # <<>> /\ get_by_name(networks, name[1], <<TRUE>>) # {}
         THEN /\ op' = [kind |-> "network_update", result |-> "TooEarly"]
              /\ UNCHANGED <<networks, config>>
         ELSE IF name # <<>> /\ update_name_is_duplicate(networks, network_id, network, name[1])
         THEN /\ op' = [kind |-> "network_update", result |-> "Duplicate name"]
              /\ UNCHANGED <<networks, config>>
         ELSE IF /\ chain_id # <<>>
                 /\ get_by_architecture_and_chain_id(
                        networks,
                        IF architecture = <<>> THEN network.architecture
                        ELSE architecture[1],
                        chain_id[1], <<>>) # {}
         THEN /\ op' = [kind |-> "network_update", result |-> "Duplicate chainId"]
              /\ UNCHANGED <<networks, config>>
         ELSE IF name = <<>> /\ architecture = <<>> /\ chain_id = <<>>
         THEN /\ op' = [kind |-> "network_update", result |-> "Unchanged"]
              /\ UNCHANGED <<networks, config>>
         ELSE /\ networks' = (networks \ {network}) \cup
                     {[network EXCEPT
                         !.name = IF name = <<>> THEN @ ELSE name[1],
                         !.architecture = IF architecture = <<>> THEN @
                                          ELSE architecture[1],
                         !.chain_id = IF chain_id = <<>> THEN @ ELSE chain_id[1]]}
              /\ config' = ConfigSet(config, KeyNetworksUpdated, 1)
              /\ op' = [kind |-> "network_update", result |-> "Ok"]
    /\ UNCHANGED varsNetworksIdle

\* DELETE /v1/networks for one id (no address exists)
NetworksDelete(network_id) ==
    /\ \E r \in networks : r.network_id = network_id
    /\ networks' = SoftDelete(networks, [r \in networks |-> r.network_id = network_id])
    /\ config' = ConfigSet(config, KeyNetworksUpdated, 1)
    /\ op' = [kind |-> "network_delete", result |-> "Ok"]
    /\ UNCHANGED varsNetworksIdle

NextNetworks ==
    \/ \E name \in Names, architecture \in Architectures, chain_id \in ChainIds :
           NetworksCreate(name, architecture, chain_id)
    \/ \E network_id \in 1..MaxNetworks :
       \E name \in Opt(Names), architecture \in Opt(Architectures),
          chain_id \in Opt(ChainIds) :
           NetworksUpdate(network_id, name, architecture, chain_id)
    \/ \E network_id \in 1..MaxNetworks : NetworksDelete(network_id)

SpecNetworks == InitNetworks /\ [][NextNetworks]_vars

\* C18: after any sequence of create, update and delete requests, no two
\* live networks have the same (architecture, chain_id), and no two live
\* networks have names that are equal without regard to case.
C18_NetworkUniqueness ==
    \A a, b \in {r \in networks : ~r.is_deleted} :
        a # b =>
            /\ <<a.architecture, a.chain_id>> # <<b.architecture, b.chain_id>>
            /\ to_lowercase(a.name) # to_lowercase(b.name)

(***************************************************************************)
(* Part 12. The info read path: Link::get_all_disinct_by_addresses         *)
(***************************************************************************)

\* the rows of the WHERE clause: to_address IN (addresses)
LinksTo(table, query) == {l \in table : l.to_address \in query}

\* the groups of DISTINCT ON (network_id, from_address)
LinkGroups(rows) == {<<l.network_id, l.from_address>> : l \in rows}
LinkGroup(rows, g) ==
    {l \in rows : l.network_id = g[1] /\ l.from_address = g[2]}

\* a variant without the ORDER BY: any row of a group
get_all_disinct_by_addresses_unordered(table, query) ==
    LET rows == LinksTo(table, query)
    IN  {result \in SUBSET rows :
            \A g \in LinkGroups(rows) :
                Cardinality(LinkGroup(result, g)) = 1}

\* Link::get_all_disinct_by_addresses: the results the query can give.
\* DISTINCT ON keeps, for every group, the first row in the order of
\* LENGTH(transfer_uuids); rows of equal length come in any order.
get_all_disinct_by_addresses(table, query) ==
    LET rows == LinksTo(table, query)
    IN  {result \in SUBSET rows :
            \A g \in LinkGroups(rows) :
                /\ Cardinality(LinkGroup(result, g)) = 1
                /\ \A l \in LinkGroup(result, g) : \A m \in LinkGroup(rows, g) :
                       Len(l.transfer_uuids) <= Len(m.transfer_uuids)}

\* the transfers and chains behind the stored links of the read path:
\* three addresses of network 1, and one transfer of network 12
ReadAddresses == {1, 2, 3}
ReadUuids ==
    {u \in {1} \X ReadAddresses \X ReadAddresses : u[2] # u[3]} \cup {<<12, 1, 2>>}
ReadChainLens == {1, 2}
ReadChains ==
    UNION {{us \in [1..n -> ReadUuids] : IsChain(us)} : n \in ReadChainLens}

\* the link stage stores a chain by extending a chain it already holds
StoredLinkSets ==
    {{Link(us) : us \in chains} :
        chains \in {cs \in SUBSET ReadChains :
                       \A us \in cs :
                           Len(us) > 1 => SubSeq(us, 1, Len(us) - 1) \in cs}}

InitInfo ==
    /\ op = NoOp
    /\ links \in StoredLinkSets
    /\ transfers = {} /\ amounts = {} /\ balances = {}
    /\ networks = {} /\ entities = {} /\ addresses = {}
    /\ address_id_seq = 0
    /\ config = EmptyConfig
    /\ InitReplicaIdle
    /\ InitSyncIdle
    /\ InitProcessIdle

\* GET /v1/info: the addresses of q (an address, or the addresses of an
\* entity), then the links found for them
InfoGet(query) ==
    /\ \E result \in get_all_disinct_by_addresses(links, query) :
           op' = [kind |-> "info", addresses |-> query, links |-> result]
    /\ UNCHANGED <<links, varsWarehouse, varsCatalog, config, varsReplica, varsSync,
                   varsProcess>>

NextInfo == \E query \in (SUBSET ReadAddresses) \ {{}} : InfoGet(query)

SpecInfo == InitInfo /\ [][NextInfo]_vars

\* the stored links of a triple (network, from_address, to_address)
LinksOfTriple(l) ==
    {m \in links : /\ m.network_id = l.network_id
                   /\ m.from_address = l.from_address
                   /\ m.to_address = l.to_address}

\* C19: every link the info read path returns leads to a queried address
\* and is, among the stored links of its (network, from_address,
\* to_address), a chain of the least number of transfer_uuids; one link is
\* returned for every (network, from_address) that has a stored link to a
\* queried address.
C19_ShortestChainAtRead ==
    op.kind = "info" =>
        /\ \A l \in op.links :
               /\ l \in links
               /\ l.to_address \in op.addresses
               /\ \A m \in LinksOfTriple(l) :
                      Len(l.transfer_uuids) <= Len(m.transfer_uuids)
        /\ \A g \in LinkGroups(LinksTo(links, op.addresses)) :
               Cardinality(LinkGroup(op.links, g)) = 1

\* a read has returned a link of one transfer while a longer chain is
\* stored for the same network and the same two addresses
C19_Witness ==
    /\ op.kind = "info"
    /\ \E l \in op.links :
           /\ Len(l.transfer_uuids) = 1
           /\ \E m \in LinksOfTriple(l) : Len(m.transfer_uuids) > 1

(***************************************************************************)
(* Part 13. is_valid_id                                                    *)
(***************************************************************************)

\* An id is a sequence of characters.  The characters of the model, with
\* the number of bytes of their UTF-8 encoding and char::is_alphanumeric:
\* ASCII letters and digits, ASCII punctuation, and the letters U+00E9
\* (two bytes) and U+4E2D (three bytes).
IdChars == {"a", "A", "1", "?", "_", "U+00E9", "U+4E2D"}

len_utf8(c) ==
    CASE c = "U+00E9" -> 2
      [] c = "U+4E2D" -> 3
      [] OTHER -> 1

is_alphanumeric(c) == c \in {"a", "A", "1", "U+00E9", "U+4E2D"}

\* str::len: the number of bytes
StrLen(text) ==
    Cardinality({<<i, b>> \in (1..Len(text)) \X (1..3) : b <= len_utf8(text[i])})

\* Display of IdPrefix
IdPrefixText(id_prefix) ==
    CASE id_prefix = "Network" -> <<"n", "e", "t">>
      [] id_prefix = "ApiKey" -> <<"k", "e", "y">>
      [] id_prefix = "Entity" -> <<"e", "n", "t">>
      [] id_prefix = "Address" -> <<"a", "d", "r">>
      [] id_prefix = "Tag" -> <<"t", "a", "g">>
      [] id_prefix = "Token" -> <<"t", "o", "k">>

\* str::starts_with
starts_with(text, head) ==
    Len(text) >= Len(head) /\ SubSeq(text, 1, Len(head)) = head

\* is_valid_id
is_valid_id(id, id_prefix) ==
    IF ~starts_with(id, IdPrefixText(id_prefix) \o <<"_">>) THEN FALSE
    ELSE LET contents == SubSeq(id, Len(IdPrefixText(id_prefix)) + 2, Len(id))
         IN  IF contents = <<>> \/ StrLen(contents) > 32 THEN FALSE
             ELSE IF ~(\A i \in 1..Len(contents) : is_alphanumeric(contents[i]))
             THEN FALSE
             ELSE TRUE

\* the ids drawn: a head, then a character repeated, then one more
\* character or none
IdHeads ==
    {<<>>, <<"n", "e">>, <<"n", "e", "t">>, <<"n", "e", "t", "_">>,
     <<"e", "n", "t", "_">>}
IdRunLens == {0, 1, 10, 11, 16, 17, 31, 32, 33}
IdInputs ==
    {head \o [i \in 1..n |-> c] \o last :
        head \in IdHeads, n \in IdRunLens, c \in IdChars \ {"_"},
        last \in {<<>>, <<"?">>, <<"a">>}}

InitId ==
    /\ op \in {[kind |-> "id", id |-> id, id_prefix |-> id_prefix] :
                  id \in IdInputs, id_prefix \in {"Network", "Entity"}}
    /\ InitIdle

\* a handler checks the id of a payload
CheckId ==
    /\ op.kind = "id"
    /\ op' = [kind |-> "id_checked", id |-> op.id, id_prefix |-> op.id_prefix,
              valid |-> is_valid_id(op.id, op.id_prefix)]
    /\ UNCHANGED varsIdle

NextId == CheckId

SpecId == InitId /\ [][NextId]_vars

\* the body of an id: what follows the prefix and '_'
IdBody(id, id_prefix) == SubSeq(id, Len(IdPrefixText(id_prefix)) + 2, Len(id))

\* C20: is_valid_id(id, prefix) is true exactly when id is the prefix
\* followed by '_' and then 1 to 32 characters that are all alphanumeric.
C20_IsValidId ==
    op.kind = "id_checked" =>
        (op.valid <=>
            /\ starts_with(op.id, IdPrefixText(op.id_prefix) \o <<"_">>)
            /\ Len(IdBody(op.id, op.id_prefix)) \in 1..32
            /\ \A i \in 1..Len(IdBody(op.id, op.id_prefix)) :
                   is_alphanumeric(IdBody(op.id, op.id_prefix)[i]))

(***************************************************************************)
(* Part 14. The receive arm of the main loop of a stage, statement by      *)
(* statement: the push of a worker, the receipt that releases it, the      *)
(* commit of the batch and of the buffered cursors, and the ways the loop  *)
(* is left (indexer/src/sync.rs, indexer/src/process.rs).  A row is        *)
(* <<block, run>>: the block it was derived from and the run of the stage  *)
(* whose worker derived it.                                                *)
(***************************************************************************)

LoopStages == {"sync", "process"}

\* bound of the loop model: the times the stage spawns its workers
MaxRuns == 2

\* the height the first run saw, and the height the workers stop at
LoopFirstHeight == ProcessFirstTip
LoopLastHeight == ProcessFirstTip + 1

\* rows one block gives: none, fewer than PUSH_ROWS, more than half a
\* full buffer
LoopRowCounts == {0, 60, 30000}

\* the seconds since WarehouseData::saved_at that a push can find
LoopAgo == {0, min_secs, min_secs + 1, max_secs, max_secs + 1}

\* the tables WarehouseData::commit inserts into
CommitTables == {"transfers", "amounts", "links"}

LoopTailKey(stage) ==
    IF stage = "sync" THEN KeySyncTail(Nid) ELSE KeyProcessTail(Nid)

LoopChunkTemplate(stage) ==
    IF stage = "sync" THEN KeySyncChunk(Nid, 0) ELSE KeyProcessChunk(Nid, 0)

\* Config after the first run of the stage on a chain of LoopFirstHeight
\* blocks with 2 cores; for Process, Sync has finished its chunks and its
\* tail is at LoopLastHeight
LoopFirstConfig(stage) ==
    IF stage = "sync"
    THEN SyncFirstRun(EmptyConfig, Nid, LoopFirstHeight, 2)
    ELSE ConfigSet(
             ProcessFirstRun(ConfigSet(EmptyConfig, KeySyncTail(Nid), LoopFirstHeight),
                             Nid, LoopFirstHeight, 2, {1}),
             KeySyncTail(Nid), LoopLastHeight)

LoopRecord(stage) ==
    [kind |-> "loop", stage |-> stage,
     main |-> "top",          \* where the main task of the stage is
     run |-> 0,               \* the times the workers were spawned
     workers |-> <<>>,        \* cursor key -> worker
     handling |-> <<>>,       \* the key of the push being handled
     force |-> FALSE, ago |-> 0, committing |-> FALSE,
     pending |-> {},          \* the keys of the map still to be written
     map_run |-> <<>>,        \* key of the map -> run whose worker pushed it
     config_before |-> <<>>,  \* Config when the commit began
     failed |-> "no",         \* the statement that returned the error
     acked |-> <<>>,          \* key -> the last value a receipt was sent for
     written |-> {},          \* the rows inserted, with table and run
     cursor_writes |-> {}]    \* the cursor writes, with the run of the push

InitLoop ==
    /\ \E stage \in LoopStages :
          /\ op = LoopRecord(stage)
          /\ config = LoopFirstConfig(stage)
    /\ links = {}
    /\ transfers = {} /\ amounts = {} /\ balances = {}
    /\ networks = {} /\ entities = {} /\ addresses = {}
    /\ address_id_seq = 0
    /\ is_ready = [r \in Replicas |-> r = Me]
    /\ is_primary = [r \in Replicas |-> r = Me]
    /\ pc = [r \in Replicas |-> "loop"]
    /\ last_primary = [r \in Replicas |-> None]
    /\ timer = [r \in Replicas |-> 0]
    /\ stalled = {}
    /\ since_change = 0
    /\ InitSyncIdle
    /\ module_ids = {1}
    /\ block_rows \in LoopRowCounts
    /\ process_running = FALSE
    /\ process_workers = <<>>
    /\ warehouse_data = {}
    /\ config_key_map = <<>>
    /\ buffered_tail = {}
    /\ processed = {}
    /\ tail_at_done = <<>>

\* what the loop model leaves alone
varsLoopIdle == <<varsLink, varsWarehouse, varsCatalog, varsSync,
                  is_ready, pc, last_primary, timer, stalled, since_change,
                  module_ids, block_rows, process_running, process_workers,
                  buffered_tail, processed, tail_at_done>>

\* the top of 'indexing once the replica leads: the cursors are read from
\* Config and one worker is spawned for the tail and for every chunk key
LoopStart ==
    /\ op.kind = "loop"
    /\ op.main = "top"
    /\ is_leading(Me)
    /\ op.run < MaxRuns
    /\ LET tail == LoopTailKey(op.stage)
           chunk_keys == get_many(config, LoopChunkTemplate(op.stage))
       IN  op' = [op EXCEPT
                     !.main = "select",
                     !.run = op.run + 1,
                     !.acked = <<>>,
                     !.workers =
                         [k \in {tail} \cup chunk_keys |->
                             IF k = tail
                             THEN ProcessWorker(ConfigValueOr0(config, tail), NoMax, {1})
                             ELSE ProcessWorker(config[k][1], config[k][2], {1})]]
    /\ UNCHANGED <<config, is_primary, warehouse_data, config_key_map, varsLoopIdle>>

LoopRunning == op.kind = "loop" /\ op.main \notin {"top", "returned"}

\* one turn of the loop of a Sync worker: a chunk worker past its maximum
\* breaks; otherwise block_height += 1, extract_block, and the push
LoopSyncWorker(k) ==
    /\ LoopRunning /\ op.stage = "sync"
    /\ k \in DOMAIN op.workers
    /\ LET w == op.workers[k]
       IN  /\ w.pc = "run"
           /\ w.max = NoMax => w.block_height + 1 <= LoopLastHeight
           /\ op' = IF w.max # NoMax /\ w.block_height + 1 > w.max
                    THEN [op EXCEPT !.workers[k].pc = "done"]
                    ELSE [op EXCEPT
                             !.workers[k].block_height = w.block_height + 1,
                             !.workers[k].pc = "pushed",
                             !.workers[k].msg =
                                 [value |-> IF w.max = NoMax THEN w.block_height + 1
                                            ELSE <<w.block_height + 1, w.max>>,
                                  data |-> {}, force |-> FALSE, then |-> "run"]]
    /\ UNCHANGED <<config, is_primary, warehouse_data, config_key_map, varsLoopIdle>>

\* one turn of the loop of a Process worker: a chunk worker past its
\* maximum pushes with force_commit and breaks; the tail worker that has
\* caught up pushes with force_commit when it holds rows; otherwise
\* block_height += 1, process_block, and a push (after which the worker
\* clears its rows) once it holds more than PUSH_ROWS rows
LoopProcessWorker(k) ==
    /\ LoopRunning /\ op.stage = "process"
    /\ k \in DOMAIN op.workers
    /\ LET w == op.workers[k]
           last_synced_block_height == ConfigValueOr0(config, KeySyncTail(Nid))
           block_height == w.block_height + 1
           data == w.data \cup {<<block_height, op.run>>}
       IN  /\ w.pc = "run"
           /\ op' =
                IF w.max # NoMax /\ block_height > w.max
                THEN [op EXCEPT
                         !.workers[k].pc = "pushed",
                         !.workers[k].msg =
                             [value |-> config_value(k, w.block_height, w.max),
                              data |-> w.data, force |-> TRUE, then |-> "done"]]
                ELSE IF w.max = NoMax /\ block_height > last_synced_block_height
                THEN IF DataLen(w.data) # 0
                     THEN [op EXCEPT
                              !.workers[k].pc = "pushed",
                              !.workers[k].msg =
                                  [value |-> config_value(k, w.block_height, w.max),
                                   data |-> w.data, force |-> TRUE, then |-> "run"]]
                     ELSE op
                ELSE IF DataLen(data) > PUSH_ROWS
                THEN [op EXCEPT
                         !.workers[k].block_height = block_height,
                         !.workers[k].data = {},
                         !.workers[k].pc = "pushed",
                         !.workers[k].msg =
                             [value |-> config_value(k, block_height, w.max),
                              data |-> data, force |-> FALSE, then |-> "run"]]
                ELSE [op EXCEPT
                         !.workers[k].block_height = block_height,
                         !.workers[k].data = data]
           /\ op' # op
    /\ UNCHANGED <<config, is_primary, warehouse_data, config_key_map, varsLoopIdle>>

\* Sync, pipe_receiver.recv(): a replica that does not lead aborts its
\* workers and goes back to the top; otherwise the receipt is sent, which
\* releases the worker, and the cursor is still to be saved
LoopSyncRecv(k) ==
    /\ op.kind = "loop" /\ op.stage = "sync"
    /\ op.main = "select"
    /\ k \in DOMAIN op.workers
    /\ op.workers[k].pc = "pushed"
    /\ op' = IF ~is_leading(Me)
             THEN [op EXCEPT !.main = "top", !.workers = <<>>]
             ELSE [op EXCEPT
                      !.main = "save",
                      !.handling = k,
                      !.workers[k].pc = "run",
                      !.acked = ConfigSet(op.acked, k, op.workers[k].msg.value)]
    /\ UNCHANGED <<config, is_primary, warehouse_data, config_key_map, varsLoopIdle>>

\* Sync, the save that follows the receipt: Config::set of the cursor, or
\* Config::delete of a chunk cursor that reached its maximum; an error of
\* the database makes the stage return it
LoopSyncSave(ok) ==
    /\ op.kind = "loop" /\ op.stage = "sync"
    /\ op.main = "save"
    /\ LET k == op.handling
           value == op.acked[k]
       IN  IF ok
           THEN /\ config' = IF k = KeySyncTail(Nid) THEN ConfigSet(config, k, value)
                             ELSE IF value[1] < value[2] THEN ConfigSet(config, k, value)
                             ELSE ConfigDelete(config, k)
                /\ op' = [op EXCEPT
                             !.main = "select", !.handling = <<>>,
                             !.cursor_writes =
                                 @ \cup {[key |-> k, value |-> value,
                                          pushed_in |-> op.run, run |-> op.run]}]
           ELSE /\ config' = config
                /\ op' = [op EXCEPT !.main = "returned", !.workers = <<>>,
                                    !.failed = "save"]
    /\ UNCHANGED <<is_primary, warehouse_data, config_key_map, varsLoopIdle>>

\* Process, pipe_receiver.recv(): a replica that does not lead aborts its
\* workers and goes back to the top, with warehouse_data and
\* config_key_map as they are; otherwise the rows are added to the batch,
\* the cursor is put in the map, and should_commit decides what follows
LoopProcessRecv(k, ago) ==
    /\ op.kind = "loop" /\ op.stage = "process"
    /\ op.main = "select"
    /\ k \in DOMAIN op.workers
    /\ op.workers[k].pc = "pushed"
    /\ IF ~is_leading(Me)
       THEN /\ op' = [op EXCEPT !.main = "top", !.workers = <<>>]
            /\ UNCHANGED <<warehouse_data, config_key_map>>
       ELSE LET msg == op.workers[k].msg
                data == warehouse_data \cup msg.data
                commit == should_commit(data, ago, msg.force)
            IN  /\ warehouse_data' = data
                /\ config_key_map' = ConfigSet(config_key_map, k, msg.value)
                /\ op' = [op EXCEPT
                             !.main = IF commit THEN "warehouse" ELSE "receipt",
                             !.handling = k,
                             !.force = msg.force, !.ago = ago, !.committing = commit,
                             !.map_run = ConfigSet(op.map_run, k, op.run),
                             !.config_before = config]
    /\ UNCHANGED <<config, is_primary, varsLoopIdle>>

\* WarehouseData::commit: one insert per table that has rows, in parallel;
\* the inserts of `done` succeed, and when another one fails the stage
\* returns its error; when none fails the batch is cleared
LoopWarehouseCommit(done) ==
    /\ op.kind = "loop" /\ op.main = "warehouse"
    /\ done \subseteq CommitTables
    /\ LET rows == {[row |-> r, table |-> t, run |-> op.run] :
                       r \in warehouse_data, t \in done}
       IN  IF done = CommitTables
           THEN /\ warehouse_data' = {}
                /\ op' = [op EXCEPT !.main = "config",
                                    !.pending = DOMAIN config_key_map,
                                    !.written = @ \cup rows]
           ELSE /\ warehouse_data' = warehouse_data
                /\ op' = [op EXCEPT !.main = "returned", !.workers = <<>>,
                                    !.failed = "warehouse",
                                    !.written = @ \cup rows]
    /\ UNCHANGED <<config, is_primary, config_key_map, varsLoopIdle>>

\* one turn of the loop over config_key_map, in the order the HashMap
\* gives: the cursor of the key is saved (or deleted); an error of the
\* database makes the stage return it
LoopConfigWrite(k, ok) ==
    /\ op.kind = "loop" /\ op.main = "config"
    /\ k \in op.pending
    /\ IF ok
       THEN /\ config' = commit_config(config, [j \in {k} |-> config_key_map[j]])
            /\ op' = [op EXCEPT
                         !.pending = @ \ {k},
                         !.cursor_writes =
                             @ \cup {[key |-> k, value |-> config_key_map[k],
                                      pushed_in |-> op.map_run[k], run |-> op.run]}]
       ELSE /\ config' = config
            /\ op' = [op EXCEPT !.main = "returned", !.workers = <<>>,
                                !.failed = "config"]
    /\ UNCHANGED <<is_primary, warehouse_data, config_key_map, varsLoopIdle>>

\* the end of the commit: config_key_map.clear()
LoopConfigClear ==
    /\ op.kind = "loop" /\ op.main = "config"
    /\ op.pending = {}
    /\ config_key_map' = <<>>
    /\ op' = [op EXCEPT !.main = "receipt", !.map_run = <<>>]
    /\ UNCHANGED <<config, is_primary, warehouse_data, varsLoopIdle>>

\* Process, the receipt that ends the arm: it releases the worker
LoopReceipt ==
    /\ op.kind = "loop" /\ op.main = "receipt"
    /\ LET k == op.handling
       IN  op' = [op EXCEPT
                     !.main = "select", !.handling = <<>>,
                     !.force = FALSE, !.ago = 0, !.committing = FALSE,
                     !.config_before = <<>>,
                     !.workers[k].pc = op.workers[k].msg.then,
                     !.workers[k].msg = None,
                     !.acked = ConfigSet(op.acked, k, op.workers[k].msg.value)]
    /\ UNCHANGED <<config, is_primary, warehouse_data, config_key_map, varsLoopIdle>>

\* networks_updated.changed(): the workers are aborted and the stage
\* returns Ok, which drops the batch and the map; Indexer::start calls the
\* stage again
LoopNetworksUpdated ==
    /\ op.kind = "loop" /\ op.main = "select"
    /\ warehouse_data' = {}
    /\ config_key_map' = <<>>
    /\ op' = [op EXCEPT !.main = "top", !.workers = <<>>, !.map_run = <<>>]
    /\ UNCHANGED <<config, is_primary, varsLoopIdle>>

\* primary_check sets or clears is_primary of the replica
LoopSetIsPrimary(b) ==
    /\ op.kind = "loop" /\ op.main # "returned"
    /\ is_primary[Me] # b
    /\ is_primary' = [is_primary EXCEPT ![Me] = b]
    /\ UNCHANGED <<op, config, warehouse_data, config_key_map, varsLoopIdle>>

LoopKeys ==
    {KeySyncTail(Nid), KeyProcessTail(Nid)}
        \cup {KeySyncChunk(Nid, b) : b \in 0..LoopLastHeight}
        \cup {KeyProcessChunk(Nid, b) : b \in 0..LoopLastHeight}

NextLoop ==
    \/ LoopStart
    \/ \E k \in LoopKeys : LoopSyncWorker(k)
    \/ \E k \in LoopKeys : LoopProcessWorker(k)
    \/ \E k \in LoopKeys : LoopSyncRecv(k)
    \/ \E ok \in BOOLEAN : LoopSyncSave(ok)
    \/ \E k \in LoopKeys, ago \in LoopAgo : LoopProcessRecv(k, ago)
    \/ \E done \in SUBSET CommitTables : LoopWarehouseCommit(done)
    \/ \E k \in LoopKeys, ok \in BOOLEAN : LoopConfigWrite(k, ok)
    \/ LoopConfigClear
    \/ LoopReceipt
    \/ LoopNetworksUpdated
    \/ \E b \in BOOLEAN : LoopSetIsPrimary(b)

SpecLoop == InitLoop /\ [][NextLoop]_vars

\* the cursor a receipt was sent for is what Config holds for its key
Persisted(cfg, k, value) ==
    IF k \in {KeySyncTail(Nid), KeyProcessTail(Nid)}
    THEN k \in DOMAIN cfg /\ cfg[k] = value
    ELSE IF value[1] < value[2] THEN k \in DOMAIN cfg /\ cfg[k] = value
    ELSE k \notin DOMAIN cfg

\* C21: a worker is released from its push (the receipt is sent) only
\* after the cursor value it pushed has been persisted in Config, in the
\* Sync stage and in the Process stage.
C21_CommitBarrier ==
    op.kind = "loop" =>
        \A k \in DOMAIN op.acked : Persisted(config, k, op.acked[k])

\* C22: the batch that is not committed when a stage is aborted (leader
\* loss, networks_updated, error) is discarded: back at the top the stage
\* holds no row and no cursor, and no row or cursor value is written in a
\* run later than the one whose worker pushed it.
C22_AbortDiscards ==
    op.kind = "loop" =>
        /\ op.main = "top" => warehouse_data = {} /\ config_key_map = <<>>
        /\ \A w \in op.written : w.row[2] = w.run
        /\ \A c \in op.cursor_writes : c.pushed_in = c.run

\* the main loop has just taken a push and decided
LoopDecided ==
    /\ op.kind = "loop" /\ op.stage = "process"
    /\ \/ op.main = "warehouse"
       \/ op.main = "receipt" /\ ~op.committing

\* C27: on each push the Process main loop commits the batch and the
\* buffered cursors when the push has force_commit = true, or when the
\* batch has more than 50 000 rows and is older than 1 s, or when the batch
\* is not empty and is older than 10 s; otherwise it commits nothing.
C27_CommitDecision ==
    LoopDecided =>
        (op.committing <=>
            \/ op.force
            \/ DataLen(warehouse_data) > BUFFER_FULL_LEN /\ op.ago > min_secs
            \/ DataLen(warehouse_data) > 0 /\ op.ago > max_secs)

\* C28: within a commit of the Process stage no cursor of the group is
\* persisted before the warehouse inserts are complete, and the cursors of
\* the group are persisted as one unit: when a warehouse insert or a
\* cursor write of the group fails, Config is as it was when the commit
\* began.
C28_CommitGroup ==
    (op.kind = "loop" /\ op.stage = "process") =>
        /\ op.main = "warehouse" => config = op.config_before
        /\ (op.main = "returned" /\ op.failed \in {"warehouse", "config"}) =>
               config = op.config_before

\* a step of the stage itself: of a worker, or of the main loop on a
\* statement that succeeds
LoopProgress ==
    \/ LoopStart
    \/ \E k \in LoopKeys : LoopSyncWorker(k)
    \/ \E k \in LoopKeys : LoopProcessWorker(k)
    \/ \E k \in LoopKeys : LoopSyncRecv(k)
    \/ LoopSyncSave(TRUE)
    \/ \E k \in LoopKeys, ago \in LoopAgo : LoopProcessRecv(k, ago)
    \/ LoopWarehouseCommit(CommitTables)
    \/ \E k \in LoopKeys : LoopConfigWrite(k, TRUE)
    \/ LoopConfigClear
    \/ LoopReceipt

\* the loop with its scheduling: while a worker can take a turn or the
\* main loop can go on, one of them does; aborts, leader changes and
\* errors of the databases may or may not come
SpecLoopLive == SpecLoop /\ WF_vars(LoopProgress)

\* the Process chunk worker of key k has pushed its cursor at the end of
\* its range, the push has been handled, and the worker has left its loop
ChunkWorkerDone(k) ==
    /\ op.kind = "loop" /\ op.stage = "process"
    /\ op.main \notin {"top", "returned"}
    /\ k \in DOMAIN op.workers
    /\ op.workers[k].pc = "done"

\* the run of the stage has ended: it was aborted or returned an error
LoopRunEnded == op.kind = "loop" /\ op.main \in {"top", "returned"}

\* C33: once a Process chunk worker has reached the end of its range and
\* pushed, its chunk key is eventually deleted from Config (unless the run
\* is aborted first), also when the range gave no warehouse rows.
C33_ChunkKeyDeleted ==
    \A k \in {KeyProcessChunk(Nid, b) : b \in 0..LoopLastHeight} :
        ChunkWorkerDone(k) ~> (k \notin DOMAIN config \/ LoopRunEnded)

(***************************************************************************)
(* Part 15. The RPC client of the UTXO adapter: Client::request            *)
(***************************************************************************)

RPC_IN_WARMUP == -28
RETRY_ATTEMPTS == 13
RPC_TIMEOUT == 250

\* 2_i32.pow(attempt); attempt stays below RETRY_ATTEMPTS, far from the
\* width of an i32
RECURSIVE pow(_, _)
pow(base, exp) == IF exp = 0 THEN 1 ELSE base * pow(base, exp - 1)

\* an Option is a sequence of at most one element
Absent == <<>>
Some(x) == <<x>>

\* what one send can come back with: an error of the transport (a failed
\* connection, or another one such as a timeout), a body that is not a
\* Response, or a Response with an optional error and an optional id (the
\* id of the request, another one, none)
RpcErrorCodes == {RPC_IN_WARMUP, RPC_IN_WARMUP + 20, RPC_IN_WARMUP + 23}

RpcResponses(id) ==
    {[send |-> t, parsed |-> FALSE, error |-> Absent, id |-> Absent] :
        t \in {"connect", "other"}}
    \cup {[send |-> "Ok", parsed |-> FALSE, error |-> Absent, id |-> Absent]}
    \cup {[send |-> "Ok", parsed |-> TRUE, error |-> e, id |-> i] :
            e \in {Absent} \cup {Some(c) : c \in RpcErrorCodes},
            i \in {Absent, Some(id), Some(id - 1)}}

\* let retry_attempts = if self.with_retry { RETRY_ATTEMPTS } else { 1 }
retry_attempts(with_retry) == IF with_retry THEN RETRY_ATTEMPTS ELSE 1

\* a variant of the match that takes every RPC error for a passing one
request_arm_retry_rpc(response, id) ==
    IF response.send = "Ok"
    THEN IF ~response.parsed THEN "Decode"
         ELSE IF response.error # Absent THEN "continue"
         ELSE IF response.id = Absent \/ response.id[1] # id THEN "NonceMismatch"
         ELSE "Ok"
    ELSE IF response.send = "connect" THEN "continue"
    ELSE "General"

\* the match on the result of send: what the iteration does with it
request_arm(response, id) ==
    IF response.send = "Ok"
    THEN IF ~response.parsed THEN "Decode"
         ELSE IF response.error # Absent /\ response.error[1] = RPC_IN_WARMUP
              THEN "continue"
         ELSE IF response.error # Absent THEN "Rpc"
         ELSE IF response.id = Absent \/ response.id[1] # id THEN "NonceMismatch"
         ELSE "Ok"
    ELSE IF response.send = "connect" THEN "continue"
    ELSE "General"

\* Client::new and Client::new_without_retry: the id starts at 1
RpcClients ==
    {[kind |-> "rpc", with_retry |-> b, id |-> 1, pc |-> "idle", attempt |-> 0,
      made |-> 0, slept |-> <<>>, last |-> Absent, result |-> "none"] :
        b \in BOOLEAN}

InitRpc ==
    /\ op \in RpcClients
    /\ InitIdle

\* request is called
RpcRequest ==
    /\ op.kind = "rpc" /\ op.pc = "idle"
    /\ op' = [op EXCEPT !.pc = "for"]
    /\ UNCHANGED varsIdle

\* one iteration of the loop: the request is sent under the next id, and
\* the answer either ends the call or is slept on
RpcAttempt(response) ==
    /\ op.kind = "rpc" /\ op.pc = "for"
    /\ op.attempt < retry_attempts(op.with_retry)
    /\ LET id == op.id
           timeout == RPC_TIMEOUT * pow(2, op.attempt)
           arm == request_arm(response, id)
       IN  op' = IF arm = "continue"
                 THEN [op EXCEPT !.id = id + 1, !.made = op.made + 1,
                                 !.last = Some(response),
                                 !.slept = Append(op.slept, timeout),
                                 !.attempt = op.attempt + 1]
                 ELSE [op EXCEPT !.id = id + 1, !.made = op.made + 1,
                                 !.last = Some(response),
                                 !.pc = "returned", !.result = arm]
    /\ UNCHANGED varsIdle

\* the loop has run out: Err(ClientError::Connection)
RpcExhausted ==
    /\ op.kind = "rpc" /\ op.pc = "for"
    /\ op.attempt = retry_attempts(op.with_retry)
    /\ op' = [op EXCEPT !.pc = "returned", !.result = "Connection"]
    /\ UNCHANGED varsIdle

NextRpc ==
    \/ RpcRequest
    \/ \E response \in RpcResponses(op.id) : RpcAttempt(response)
    \/ RpcExhausted

SpecRpc == InitRpc /\ [][NextRpc]_vars

\* the answers by what they are
IsWarmup(r) == r.send = "Ok" /\ r.parsed /\ r.error = Some(-28)
IsConnectError(r) == r.send = "connect"
IsOtherRpcError(r) == r.send = "Ok" /\ r.parsed /\ r.error # Absent /\ r.error # Some(-28)
IsNonceMismatch(r, id) == r.send = "Ok" /\ r.parsed /\ r.error = Absent /\ r.id # Some(id)
IsSuccess(r, id) == r.send = "Ok" /\ r.parsed /\ r.error = Absent /\ r.id = Some(id)

\* C30: a request with retry sends at most 13 times; it goes on to another
\* attempt only after the warm-up code -28 or a connection error, having
\* slept 250ms * 2^attempt; it returns at once on success, on another RPC
\* error and on a nonce mismatch; it returns a Connection error after the
\* 13th failed attempt; without retry it sends exactly once.
C30_RetryPolicy ==
    op.kind = "rpc" =>
        /\ op.made <= (IF op.with_retry THEN 13 ELSE 1)
        /\ \A i \in DOMAIN op.slept : op.slept[i] = 250 * 2^(i - 1)
        /\ (op.pc = "for" /\ op.made > 0) =>
               /\ IsWarmup(op.last[1]) \/ IsConnectError(op.last[1])
               /\ Len(op.slept) = op.made
        /\ op.pc = "returned" =>
               LET r == op.last[1]
                   id == op.id - 1
               IN  /\ op.made >= 1
                   /\ ~op.with_retry => op.made = 1
                   /\ IsSuccess(r, id) => op.result = "Ok" /\ Len(op.slept) = op.made - 1
                   /\ IsOtherRpcError(r) => op.result = "Rpc" /\ Len(op.slept) = op.made - 1
                   /\ IsNonceMismatch(r, id) =>
                          op.result = "NonceMismatch" /\ Len(op.slept) = op.made - 1
                   /\ (IsWarmup(r) \/ IsConnectError(r)) =>
                          op.result = "Connection"
                   /\ op.result = "Connection" =>
                          /\ op.made = (IF op.with_retry THEN 13 ELSE 1)
                          /\ IsWarmup(r) \/ IsConnectError(r)
                   /\ op.result = "Ok" => IsSuccess(r, id)

\* thirteen attempts have failed, the last sleep was of 250ms * 2^12, and
\* the call has returned the Connection error
C30_Witness ==
    /\ op.kind = "rpc" /\ op.with_retry /\ op.pc = "returned"
    /\ op.result = "Connection" /\ op.made = 13
    /\ op.slept[13] = 1024000
    /\ IsWarmup(op.last[1])

(***************************************************************************)
(* Part 16. The cached height of the chain, block_height_n{id}             *)
(***************************************************************************)

\* the heights an endpoint answers get_block_height with
MaxAnswer == 3

\* a replica that is up, on a network that has never been synced
InitHeight ==
    /\ InitSync
    /\ chain_tip <= MaxAnswer

\* the endpoint answers get_block_height with another height than before:
\* a higher one when the chain has grown, a lower one when the endpoint is
\* behind the one that answered last or its chain was reorganised
ChainAnswers(block_height) ==
    /\ chain_tip # block_height
    /\ chain_tip' = block_height
    /\ op' = NoOp
    /\ UNCHANGED <<varsProcess, varsLink, varsWarehouse, varsCatalog, varsReplica, config,
                   cpu_count, storage, sync_running, sync_workers, sync_first_height>>

\* a worker extracts a block that the endpoint has
HeightWorkerExtract(k) ==
    /\ SyncWorkerExtract(k)
    /\ sync_workers'[k].block_height <= chain_tip

NextHeight ==
    \/ SyncStart
    \/ \E k \in SyncKeys : SyncChunkWorkerBreak(k)
    \/ \E k \in SyncKeys : HeightWorkerExtract(k)
    \/ \E k \in SyncKeys : SyncReceive(k)
    \/ SyncNetworksUpdated
    \/ \E b \in BOOLEAN : SetIsPrimary(b)
    \/ \E block_height \in 1..MaxAnswer : ChainAnswers(block_height)

SpecHeight == InitHeight /\ [][NextHeight]_vars

\* C31: the value stored under block_height_n{id} never decreases: no
\* write replaces it by a lower height read from the chain.
C31_HeightCacheMonotone ==
    [][KeyBlockHeight(Nid) \in DOMAIN config =>
           /\ KeyBlockHeight(Nid) \in DOMAIN config'
           /\ config'[KeyBlockHeight(Nid)] >= config[KeyBlockHeight(Nid)]]_vars

(***************************************************************************)
(* Part 17. The UTXO adapter: process_block and the inputs of a            *)
(* transaction                                                             *)
(***************************************************************************)

\* A block of two transactions: the coinbase T1 and a transaction T2 with
\* one input, which spends an output of T1 or of T0, a transaction of an
\* earlier block.  An output holds the hash of its transaction, its value
\* and its script, here the address the script pays to ("" for a script
\* that is not an address).  The input of the coinbase has the null
\* previous output, whose index is the largest one (here the largest
\* integer of the checker).
InputTxHashes == {"T1", "T2"}
ScriptsT1 == {"A", "B"}
ScriptsT2 == {"C", "D", ""}
ValuesT1 == {5, 7}
ValuesT2 == {3, 4}
Vouts == {0, 1, 2}

OutputsOf(tx_hash, scripts, values) ==
    UNION {[1..n -> {[tx_hash |-> tx_hash, value |-> v, script_pubkey |-> s] :
                        v \in values, s \in scripts}] : n \in 1..2}

InputBlocks ==
    {[txs |-> <<[hash |-> "T1", is_coin_base |-> TRUE],
                [hash |-> "T2", is_coin_base |-> FALSE]>>,
      inputs |-> <<[tx_hash |-> "T1", previous_output_tx_hash |-> "null",
                    previous_output_vout |-> 2147483647],
                   [tx_hash |-> "T2", previous_output_tx_hash |-> p,
                    previous_output_vout |-> vout]>>,
      outputs |-> o1 \o o2] :
        p \in {"T0", "T1"}, vout \in Vouts,
        o1 \in OutputsOf("T1", ScriptsT1, ValuesT1),
        o2 \in OutputsOf("T2", ScriptsT2, ValuesT2)}

\* Bitcoin::get_address: the address of the script of tx_outputs[vout], or
\* "{hash}:{vout}" when the script is no address; None past the end.  An
\* address is the tuple of its parts
get_address(tx, tx_outputs, vout) ==
    IF vout < Len(tx_outputs)
    THEN IF tx_outputs[vout + 1].script_pubkey # ""
         THEN Some(<<tx_outputs[vout + 1].script_pubkey>>)
         ELSE Some(<<tx.hash, vout>>)
    ELSE Absent

\* Bitcoin::get_utxo
get_utxo(tx, tx_outputs, vout) ==
    LET address == get_address(tx, tx_outputs, vout)
    IN  IF address = Absent THEN Absent
        ELSE Some(<<address[1], tx_outputs[vout + 1].value>>)

\* get_unique_addresses: the sum of the values of each address
RECURSIVE get_unique_addresses(_)
get_unique_addresses(pair) ==
    IF pair = <<>> THEN <<>>
    ELSE LET m == get_unique_addresses(SubSeq(pair, 1, Len(pair) - 1))
             p == pair[Len(pair)]
             initial_value == IF p[1] \in DOMAIN m THEN m[p[1]] ELSE 0
         IN  [a \in DOMAIN m \cup {p[1]} |->
                 IF a = p[1] THEN initial_value + p[2] ELSE m[a]]

\* the pairs pushed for the inputs of a transaction
RECURSIVE InputPairs(_, _, _)
InputPairs(tx, tx_inputs, tx_outputs) ==
    IF tx_inputs = <<>> THEN <<>>
    ELSE LET rest == InputPairs(tx, SubSeq(tx_inputs, 1, Len(tx_inputs) - 1), tx_outputs)
             tx_input == tx_inputs[Len(tx_inputs)]
             utxo == get_utxo(tx, tx_outputs, tx_input.previous_output_vout)
         IN  IF ~tx.is_coin_base /\ utxo # Absent THEN Append(rest, utxo[1]) ELSE rest

\* index_transaction_outputs
RECURSIVE index_transaction_outputs(_, _, _)
index_transaction_outputs(tx, tx_outputs, n) ==
    IF n = 0 THEN <<>>
    ELSE Append(index_transaction_outputs(tx, tx_outputs, n - 1),
                <<get_address(tx, tx_outputs, n - 1)[1], tx_outputs[n].value>>)

\* Bitcoin::process_transaction up to the call of the modules: the inputs
\* and the outputs handed to module.run
process_transaction(tx, tx_inputs, tx_outputs) ==
    [inputs |-> get_unique_addresses(InputPairs(tx, tx_inputs, tx_outputs)),
     outputs |-> get_unique_addresses(
                     index_transaction_outputs(tx, tx_outputs, Len(tx_outputs)))]

\* Bitcoin::process_block: every transaction with the inputs and the
\* outputs of the block that carry its hash
process_block(block) ==
    [i \in DOMAIN block.txs |->
        LET tx == block.txs[i]
        IN  process_transaction(
                tx,
                SelectSeq(block.inputs, LAMBDA x : x.tx_hash = tx.hash),
                SelectSeq(block.outputs, LAMBDA o : o.tx_hash = tx.hash))]

InitInput ==
    /\ op \in {[kind |-> "block", block |-> b] : b \in InputBlocks}
    /\ InitIdle

ProcessBlock ==
    /\ op.kind = "block"
    /\ op' = [kind |-> "block_processed", block |-> op.block,
              txs |-> process_block(op.block)]
    /\ UNCHANGED varsIdle

NextInput == ProcessBlock

SpecInput == InitInput /\ [][NextInput]_vars

\* the outputs of a transaction of the block, in their order
BlockOutputsOf(block, tx_hash) ==
    SelectSeq(block.outputs, LAMBDA o : o.tx_hash = tx_hash)

\* C32: the input of the non-coinbase transaction T2 that spends output
\* vout of T1, a transaction of the same block, is attributed the address
\* and the value of that output of T1.
C32_InputResolution ==
    op.kind = "block_processed" =>
        LET input == op.block.inputs[2]
            spent == BlockOutputsOf(op.block, input.previous_output_tx_hash)
            vout == input.previous_output_vout
        IN  (input.previous_output_tx_hash = "T1" /\ vout < Len(spent)) =>
                op.txs[2].inputs =
                    [a \in {<<spent[vout + 1].script_pubkey>>} |-> spent[vout + 1].value]

(***************************************************************************)
(* Part 18. Config::set_where on the `primary` row, with the time stamps   *)
(* of the row                                                              *)
(***************************************************************************)

\* the replicas that run primary_check, and the last second of the clock
CasReplicas == {"r1", "r2", "r3"}
MaxNow == 22

\* a variant of the update that filters on key and value only
set_where_value_only(row, value, now, where_value) ==
    IF row # Absent /\ row[1].value = where_value.value
    THEN <<Some([value |-> value, updated_at |-> now]), TRUE>>
    ELSE <<row, FALSE>>

\* Config::set_where on the one row of the key: UPDATE .. SET value,
\* updated_at = now WHERE key AND value = where_value.value AND
\* updated_at = where_value.updated_at; <<row after, rows_affected == 1>>
set_where(row, value, now, where_value) ==
    IF /\ row # Absent
       /\ row[1].value = where_value.value
       /\ row[1].updated_at = where_value.updated_at
    THEN <<Some([value |-> value, updated_at |-> now]), TRUE>>
    ELSE <<row, FALSE>>

\* the match of primary_check on what Config::get returned at time `now`
primary_check_arm_at(uuid, hit, now) ==
    IF hit = Absent THEN "create"
    ELSE IF hit[1].value = uuid /\ hit[1].updated_at >= now - COOLDOWN
         THEN "check_in"
    ELSE IF now - INDEXER_PROMOTION_TIMEOUT > hit[1].updated_at THEN "upgrade"
    ELSE "secondary"

InitCas ==
    /\ op = [kind |-> "cas", now |-> 0, row |-> Absent,
             pc |-> [r \in CasReplicas |-> "loop"],
             hit |-> [r \in CasReplicas |-> Absent],
             arm |-> [r \in CasReplicas |-> "none"],
             wins |-> {}, last |-> Absent]
    /\ InitIdle

\* Config::get(Primary) and the choice of the arm
CasGet(r) ==
    /\ op.kind = "cas" /\ op.pc[r] = "loop"
    /\ op' = [op EXCEPT !.pc[r] = "match",
                        !.hit[r] = op.row,
                        !.arm[r] = primary_check_arm_at(r, op.row, op.now),
                        !.last = Absent]
    /\ UNCHANGED varsIdle

\* the arm: Config::set when there was no row, set_where in the check_in
\* and upgrade arms, nothing in the secondary arm
CasAct(r) ==
    /\ op.kind = "cas" /\ op.pc[r] = "match"
    /\ LET arm == op.arm[r]
           res == IF arm = "create"
                  THEN <<Some([value |-> r, updated_at |-> op.now]), TRUE>>
                  ELSE IF arm \in {"check_in", "upgrade"}
                       THEN set_where(op.row, r, op.now, op.hit[r][1])
                  ELSE <<op.row, FALSE>>
       IN  op' = [op EXCEPT !.pc[r] = "loop",
                           !.row = res[1],
                           !.hit[r] = Absent,
                           !.arm[r] = "none",
                           !.wins = IF arm = "upgrade" /\ res[2]
                                    THEN @ \cup {[replica |-> r, hit |-> op.hit[r]]}
                                    ELSE @,
                           !.last = Some([replica |-> r, arm |-> arm,
                                          hit |-> op.hit[r], ok |-> res[2],
                                          before |-> op.row])]
    /\ UNCHANGED varsIdle

\* a second passes
CasTick ==
    /\ op.kind = "cas" /\ op.now < MaxNow
    /\ op' = [op EXCEPT !.now = op.now + 1, !.last = Absent]
    /\ UNCHANGED varsIdle

NextCas ==
    \/ \E r \in CasReplicas : CasGet(r)
    \/ \E r \in CasReplicas : CasAct(r)
    \/ CasTick

SpecCas == InitCas /\ [][NextCas]_vars

\* C39: when two or more replicas read the same stale `primary` row (same
\* value and updated_at) and each attempts set_where, at most one
\* set_where returns true, and `primary` afterwards holds the uuid of that
\* replica.
C39_ConcurrentTakeover ==
    op.kind = "cas" =>
        /\ \A v, w \in op.wins : v.hit = w.hit => v.replica = w.replica
        /\ (op.last # Absent /\ op.last[1].arm = "upgrade") =>
               IF op.last[1].ok
               THEN op.row = Some([value |-> op.last[1].replica,
                                   updated_at |-> op.now])
               ELSE /\ op.row # op.last[1].hit
                    /\ op.row = op.last[1].before

\* a replica has just lost the takeover of a stale row that another
\* replica, having read the same value and updated_at, had won
C39_Witness ==
    /\ op.kind = "cas"
    /\ op.last # Absent /\ op.last[1].arm = "upgrade" /\ ~op.last[1].ok
    /\ \E w \in op.wins :
          /\ w.hit = op.last[1].hit
          /\ w.replica # op.last[1].replica
          /\ op.row[1].value = w.replica

(***************************************************************************)
(* Part 19. show_sync_progress next to the first run of Indexer::sync,     *)
(* statement by statement                                                  *)
(***************************************************************************)

\* the highest tip of a chain of this model
ProgressMaxTip == 4

\* u64 `a - b`: the difference, or the underflow (a panic with overflow
\* checks, the difference modulo 2^64 without them; `short` is b - a)
sub_u64(a, b) ==
    IF a >= b THEN [underflow |-> FALSE, value |-> a - b]
    ELSE [underflow |-> TRUE, short |-> b - a]

\* the sum of max - min over a set of chunk keys of a Config table
RECURSIVE RemainingBlocks(_, _)
RemainingBlocks(cfg, keys) ==
    IF keys = {} THEN 0
    ELSE LET k == CHOOSE x \in keys : TRUE
         IN  (cfg[k][2] - cfg[k][1]) + RemainingBlocks(cfg, keys \ {k})

\* done_blocks of show_sync_progress: tail_block, less max - min of every
\* chunk key that get_many returns
done_blocks(cfg, nid, tail_block) ==
    sub_u64(tail_block, RemainingBlocks(cfg, get_many(cfg, KeySyncChunk(nid, 0))))

\* the chunk cursors the first run writes with set_many
block_sync_ranges(nid, block_height, cpus) ==
    LET first == SyncFirstRun(EmptyConfig, nid, block_height, cpus)
    IN  [k \in DOMAIN first \ {KeySyncTail(nid)} |-> first[k]]

\* one replica that leads, with one network; no reporter yet
InitProgress ==
    /\ op = [kind |-> "progress", nets |-> {1},
             sched |-> "idle", todo |-> {}, cur |-> 0, block_height |-> 0,
             reporter |-> "none", rnets |-> {}, rcur |-> 0,
             tail_block |-> 0, done |-> Absent]
    /\ links = {}
    /\ transfers = {} /\ amounts = {} /\ balances = {}
    /\ networks = {} /\ entities = {} /\ addresses = {}
    /\ address_id_seq = 0
    /\ config = EmptyConfig
    /\ InitReplicaIdle
    /\ chain_tip \in 1..ProgressMaxTip
    /\ cpu_count \in CpuCounts
    /\ storage = {}
    /\ sync_running = FALSE
    /\ sync_workers = <<>>
    /\ sync_first_height = 0
    /\ InitProcessIdle

varsProgressIdle ==
    <<varsLink, varsWarehouse, varsCatalog, varsReplica, varsSync, varsProcess>>

\* the top of 'indexing: the loop over app.networks begins
ProgressStart ==
    /\ op.kind = "progress" /\ op.sched = "idle"
    /\ op' = [op EXCEPT !.sched = "for", !.todo = op.nets]
    /\ UNCHANGED <<config, varsProgressIdle>>

\* one network of the loop: the tail is read, get_updated_block_height
\* caches the height, and the first-run condition is evaluated
ProgressNetwork(n) ==
    /\ op.kind = "progress" /\ op.sched = "for"
    /\ n \in op.todo
    /\ LET last_copied_block == ConfigValueOr0(config, KeySyncTail(n))
           updated == get_updated_block_height(config, chain_tip, n, last_copied_block)
           first_run == /\ last_copied_block = 0
                        /\ cpu_count > 0
                        /\ get_many(updated[2], KeySyncChunk(n, 0)) = {}
       IN  /\ config' = updated[2]
           /\ op' = IF first_run
                    THEN [op EXCEPT !.sched = "set_many", !.cur = n,
                                    !.block_height = updated[1]]
                    ELSE [op EXCEPT !.todo = op.todo \ {n}]
    /\ UNCHANGED varsProgressIdle

\* Config::set_many of the chunk cursors
ProgressSetChunks ==
    /\ op.kind = "progress" /\ op.sched = "set_many"
    /\ config' = set_many(config, block_sync_ranges(op.cur, op.block_height, cpu_count))
    /\ op' = [op EXCEPT !.sched = "set_tail"]
    /\ UNCHANGED varsProgressIdle

\* Config::set of the tail, fast-forwarded to block_height - 1
ProgressSetTail ==
    /\ op.kind = "progress" /\ op.sched = "set_tail"
    /\ config' = ConfigSet(config, KeySyncTail(op.cur), op.block_height - 1)
    /\ op' = [op EXCEPT !.sched = "for", !.todo = op.todo \ {op.cur}]
    /\ UNCHANGED varsProgressIdle

\* the workers are spawned, and with them a task that runs
\* show_sync_progress; nothing ever stops a task of an earlier pass
ProgressLaunch ==
    /\ op.kind = "progress" /\ op.sched = "for" /\ op.todo = {}
    /\ op' = [op EXCEPT !.sched = "run",
                        !.reporter = IF @ = "none" THEN "sleep" ELSE @]
    /\ UNCHANGED <<config, varsProgressIdle>>

\* the stage saves the cursor a worker pushed after a block: the tail one
\* higher, a chunk cursor one higher or, at its maximum, deleted
ProgressCursor(k) ==
    /\ op.kind = "progress" /\ op.sched = "run"
    /\ k \in DOMAIN config
    /\ k[1] \in {"IndexerSyncTail", "IndexerSyncChunk"}
    /\ IF k[1] = "IndexerSyncTail"
       THEN /\ config[k] + 1 <= chain_tip
            /\ config' = ConfigSet(config, k, config[k] + 1)
       ELSE /\ config[k][1] + 1 <= config[k][2]
            /\ config' = IF config[k][1] + 1 < config[k][2]
                         THEN ConfigSet(config, k, <<config[k][1] + 1, config[k][2]>>)
                         ELSE ConfigDelete(config, k)
    /\ UNCHANGED <<op, varsProgressIdle>>

\* the stage aborts its workers and starts over: the replica does not lead
\* for a while, or (with n) a network has been added
ProgressRestart(n) ==
    /\ op.kind = "progress" /\ op.sched = "run"
    /\ op' = [op EXCEPT !.sched = "idle", !.nets = op.nets \cup {n}]
    /\ UNCHANGED <<config, varsProgressIdle>>

\* show_sync_progress after its sleep: the loop over a clone of
\* app.networks begins
ReporterWake ==
    /\ op.kind = "progress" /\ op.reporter = "sleep"
    /\ op' = [op EXCEPT !.reporter = "for", !.rnets = op.nets]
    /\ UNCHANGED <<config, varsProgressIdle>>

\* Config::get(BlockHeight(nid)): a score of 0 when there is none
ReporterHeight(n) ==
    /\ op.kind = "progress" /\ op.reporter = "for"
    /\ n \in op.rnets
    /\ op' = IF ConfigValueOr0(config, KeyBlockHeight(n)) = 0
             THEN [op EXCEPT !.rnets = op.rnets \ {n}, !.done = Absent]
             ELSE [op EXCEPT !.reporter = "tail", !.rcur = n, !.done = Absent]
    /\ UNCHANGED <<config, varsProgressIdle>>

\* Config::get(IndexerSyncTail(nid)).unwrap_or(0)
ReporterTail ==
    /\ op.kind = "progress" /\ op.reporter = "tail"
    /\ op' = [op EXCEPT !.reporter = "chunks",
                        !.tail_block = ConfigValueOr0(config, KeySyncTail(op.rcur))]
    /\ UNCHANGED <<config, varsProgressIdle>>

\* Config::get_many of the chunk keys and the subtraction
ReporterChunks ==
    /\ op.kind = "progress" /\ op.reporter = "chunks"
    /\ op' = [op EXCEPT !.reporter = "for", !.rnets = op.rnets \ {op.rcur},
                        !.done = Some(done_blocks(config, op.rcur, op.tail_block))]
    /\ UNCHANGED <<config, varsProgressIdle>>

\* the loop over the networks is over
ReporterSleep ==
    /\ op.kind = "progress" /\ op.reporter = "for" /\ op.rnets = {}
    /\ op' = [op EXCEPT !.reporter = "sleep", !.done = Absent]
    /\ UNCHANGED <<config, varsProgressIdle>>

ProgressKeys ==
    UNION {{KeySyncTail(n)} \cup {KeySyncChunk(n, b) : b \in 0..ProgressMaxTip} :
              n \in NetworkIds}

NextProgress ==
    \/ ProgressStart
    \/ \E n \in NetworkIds : ProgressNetwork(n)
    \/ ProgressSetChunks
    \/ ProgressSetTail
    \/ ProgressLaunch
    \/ \E k \in ProgressKeys : ProgressCursor(k)
    \/ \E n \in NetworkIds : ProgressRestart(n)
    \/ ReporterWake
    \/ \E n \in NetworkIds : ReporterHeight(n)
    \/ ReporterTail
    \/ ReporterChunks
    \/ ReporterSleep

SpecProgress == InitProgress /\ [][NextProgress]_vars

\* C40: the progress computation never underflows: done_blocks, the sync
\* tail less the sum of max - min over the remaining chunk keys, is never
\* negative, in every interleaving of a reporter with the first-run chunk
\* creation, the cursor updates and the restarts of the stage.
C40_ProgressNoUnderflow ==
    (op.kind = "progress" /\ op.done # Absent) => ~op.done[1].underflow

=============================================================================
